---- MODULE Spec2Model ----
(***************************************************************************)
(* A model of clitools/fs_lint.py: the fs-lint command (fs_lint), the      *)
(* orchestrator (FSLinter), the rule registry (linterdex and the TestBase  *)
(* subclasses), the walker (walk_filesystem) and the part of the           *)
(* filesystem they read and change.                                        *)
(*                                                                         *)
(* A file name is a sequence of one-character tokens, a path a sequence    *)
(* of names (relative to the working directory), a filesystem a function   *)
(* from the existing paths to their entries.                               *)
(***************************************************************************)
EXTENDS Integers, Sequences, FiniteSets, TLC

(***************************************************************************)
(* Bounds of the model.                                                    *)
(***************************************************************************)
\* the largest number of root arguments (PATHS) of one run
MaxRoots == 2

\* the largest number of options given on one command line
MaxOptions == 2

(***************************************************************************)
(* Sequences.                                                              *)
(***************************************************************************)
Range(s) == {s[i] : i \in 1..Len(s)}

Last(s) == s[Len(s)]

Front(s) == SubSeq(s, 1, Len(s) - 1)

Drop(s, n) == SubSeq(s, n + 1, Len(s))

IsPrefix(p, s) == Len(p) <= Len(s) /\ SubSeq(s, 1, Len(p)) = p

\* `needle in hay` for str: needle occurs as a contiguous run
Contains(hay, needle) ==
    \E i \in 0..(Len(hay) - Len(needle)) : SubSeq(hay, i + 1, i + Len(needle)) = needle

EndsWith(s, t) == Len(t) <= Len(s) /\ SubSeq(s, Len(s) - Len(t) + 1, Len(s)) = t

RECURSIVE Flatten(_)
\* ''.join(parts) for a sequence of character sequences
Flatten(parts) == IF parts = <<>> THEN <<>> ELSE Head(parts) \o Flatten(Tail(parts))

RECURSIVE Orderings(_)
\* every order in which the set S can be listed
Orderings(S) ==
    IF S = {} THEN {<<>>}
    ELSE UNION {{<<x>> \o p : p \in Orderings(S \ {x})} : x \in S}

(***************************************************************************)
(* Characters (str methods and unicodedata, on the model's alphabet).      *)
(***************************************************************************)
UpperChars == <<"A", "B", "C", "K", "L", "O", "P", "T", "X">>

LowerChars == <<"a", "b", "c", "k", "l", "o", "p", "t", "x">>

\* str.lower() on one character
LowerChar(c) ==
    IF \E i \in 1..Len(UpperChars) : UpperChars[i] = c
    THEN LowerChars[CHOOSE i \in 1..Len(UpperChars) : UpperChars[i] = c]
    ELSE c

Lower(s) == [i \in 1..Len(s) |-> LowerChar(s[i])]

\* the characters whose unicodedata.category starts with 'C'
ControlChars == {"\t", "\r", "\n", "U+0007", "U+200B"}

IsControl(c) == c \in ControlChars

Digits == {"0", "1", "2", "3", "4", "5", "6", "7", "8", "9"}

\* unidecode() of one character: ASCII is kept, the rest is transliterated
UnidecodeChar(c) ==
    CASE c = "U+00E9" -> <<"e">>
      [] c = "U+00DF" -> <<"s", "s">>
      [] c = "U+2044" -> <<"/">>
      [] OTHER -> <<c>>

Unidecode(s) == Flatten([i \in 1..Len(s) |-> UnidecodeChar(s[i])])

(***************************************************************************)
(* pathlib.PurePath on names: suffix, stem, with_name.                     *)
(***************************************************************************)
\* str.rfind('.') as a 1-based position, 0 when there is no dot
RFindDot(name) ==
    IF \E i \in 1..Len(name) : name[i] = "."
    THEN CHOOSE i \in 1..Len(name) :
            name[i] = "." /\ \A j \in (i + 1)..Len(name) : name[j] # "."
    ELSE 0

\* PurePath.suffix: from the last dot, unless it is the first or last character
Suffix(name) ==
    LET i == RFindDot(name)
    IN  IF 1 < i /\ i < Len(name) THEN SubSeq(name, i, Len(name)) ELSE <<>>

\* PurePath.stem
Stem(name) ==
    LET i == RFindDot(name)
    IN  IF 1 < i /\ i < Len(name) THEN SubSeq(name, 1, i - 1) ELSE name

PathName(path) == Last(path)

\* PurePath.with_name raises ValueError for an empty name
WithNameRaises(newname) == newname = <<>> \/ newname = <<".">> \/ "/" \in Range(newname)

WithName(path, newname) == Append(Front(path), newname)

(***************************************************************************)
(* stat: mode bits.  The file type of st_mode is kept apart as `kind',     *)
(* the twelve permission bits as `perm' (= stat.S_IMODE(st_mode)).         *)
(***************************************************************************)
S_ISUID == 2048

S_ISGID == 1024

S_IRUSR == 256

S_IXUSR == 64

S_IRGRP == 32

S_IXGRP == 8

S_IROTH == 4

S_IWOTH == 2

S_IXOTH == 1

\* bool(mode & bit) for a single bit
HasBit(mode, bit) == (mode \div bit) % 2 = 1

\* mode & ~bit for a single bit
ClearBit(mode, bit) == IF HasBit(mode, bit) THEN mode - bit ELSE mode

(***************************************************************************)
(* pathspec: GitWildMatchPattern and PathSpec.match_file, as far as        *)
(* walk_filesystem uses them: the file matched is always one bare entry    *)
(* name (no separator in it).  A pattern is a sequence of characters; the  *)
(* glob syntax covered is literal characters, `*' and `?'.                 *)
(***************************************************************************)
RECURSIVE SplitSlash(_)
\* str.split('/')
SplitSlash(s) ==
    IF \A i \in 1..Len(s) : s[i] # "/" THEN <<s>>
    ELSE LET k == CHOOSE i \in 1..Len(s) :
                    s[i] = "/" /\ \A j \in 1..(i - 1) : s[j] # "/"
         IN  <<SubSeq(s, 1, k - 1)>> \o SplitSlash(Drop(s, k))

RECURSIVE GlobMatch(_, _)
\* one pattern segment against one name: `*' is [^/]*, `?' is [^/]
GlobMatch(pat, s) ==
    IF pat = <<>> THEN s = <<>>
    ELSE IF Head(pat) = "*"
         THEN GlobMatch(Tail(pat), s) \/ (s # <<>> /\ GlobMatch(pat, Tail(s)))
         ELSE s # <<>>
              /\ (Head(pat) = "?" \/ Head(pat) = Head(s))
              /\ GlobMatch(Tail(pat), Tail(s))

\* GitWildMatchPattern.include: None for a blank line, a comment and "/"
PatternInclude(pattern) ==
    IF pattern = <<>> \/ Head(pattern) = "#" \/ pattern = <<"/">> THEN "none"
    ELSE IF Head(pattern) = "!" THEN "exclude" ELSE "include"

\* the path segments of the pattern after pattern_to_regex's normalisation:
\* `!' dropped, a leading `/' anchors (dropped), a trailing `/' becomes `**',
\* a single segment is matched at any depth (`**' put in front)
PatternSegs(pattern) ==
    LET body == IF Head(pattern) = "!" THEN Tail(pattern) ELSE pattern
        segs == SplitSlash(body)
        s1   == IF Head(segs) = <<>> THEN Tail(segs)
                ELSE IF (Len(segs) = 1 \/ (Len(segs) = 2 /\ segs[2] = <<>>))
                        /\ Head(segs) # <<"*", "*">>
                     THEN <<(<<"*", "*">>)>> \o segs
                     ELSE segs
    IN  IF s1 # <<>> /\ Last(s1) = <<>> /\ Len(s1) > 1
        THEN Append(Front(s1), <<"*", "*">>)
        ELSE s1

\* the pattern's regex against a bare name: a leading `**' matches the empty
\* prefix, then exactly one segment must be left and match the whole name
\* (a trailing `**', from `dir/', needs a separator after the name)
PatternMatchesName(pattern, name) ==
    LET segs == PatternSegs(pattern)
        rest == IF segs # <<>> /\ Head(segs) = <<"*", "*">> THEN Tail(segs) ELSE segs
    IN  IF segs = <<(<<"*", "*">>)>> THEN TRUE
        ELSE /\ Len(rest) = 1
             /\ rest[1] # <<"*", "*">>
             /\ GlobMatch(rest[1], name)

RECURSIVE MatchFile(_, _)
\* PathSpec.match_file(name): the last pattern that matches decides
MatchFile(patterns, name) ==
    IF patterns = <<>> THEN FALSE
    ELSE LET p == Last(patterns)
         IN  IF PatternInclude(p) # "none" /\ PatternMatchesName(p, name)
             THEN PatternInclude(p) = "include"
             ELSE MatchFile(Front(patterns), name)

(***************************************************************************)
(* The rules (the TestBase subclasses registered in linterdex).  `st' is   *)
(* the lstat snapshot, `f' the filesystem at the time of the call.         *)
(***************************************************************************)
\* linterdex.keys(): the rule names in the order of their registration
Registry ==
    << "type-non-regular", "permissions-world-writable", "permissions-world-readable",
       "permissions-suid", "type-broken-symlink", "permissions-sgid",
       "permissions-world-readable-dir", "permissions-owner", "permissions-group",
       "permissions-wrongly-executable", "name-uppercase-extension",
       "permissions-orphan-executable-bit", "name-tempfile", "name-controlchars",
       "name-spaceatstart", "name-spaceatend", "name-spacedouble", "name-dangerous",
       "size-zero", "name-len32", "name-non-ascii" >>

RuleNames == Range(Registry)

\* the rule names in the order of str comparison (what sorted() compares by)
NameOrder ==
    << "name-controlchars", "name-dangerous", "name-len32", "name-non-ascii",
       "name-spaceatend", "name-spaceatstart", "name-spacedouble", "name-tempfile",
       "name-uppercase-extension", "permissions-group",
       "permissions-orphan-executable-bit", "permissions-owner", "permissions-sgid",
       "permissions-suid", "permissions-world-readable",
       "permissions-world-readable-dir", "permissions-world-writable",
       "permissions-wrongly-executable", "size-zero", "type-broken-symlink",
       "type-non-regular" >>

\* a < b for two rule names
NameLess(a, b) ==
    \E i, j \in 1..Len(NameOrder) : NameOrder[i] = a /\ NameOrder[j] = b /\ i < j

\* the uid and gid of the process (os.getuid(), os.getgid()); the process is
\* not the superuser
MyUid == "me"

MyGid == "mygroup"

\* os.path.exists(path): follows a symbolic link to its target
PathExists(f, path) ==
    /\ path \in DOMAIN f
    /\ f[path].kind = "lnk" => f[path].target \in DOMAIN f

\* Path.is_dir(): follows a symbolic link to its target
IsDir(f, path) ==
    /\ path \in DOMAIN f
    /\ \/ f[path].kind = "dir"
       \/ f[path].kind = "lnk" /\ f[path].target \in DOMAIN f
                               /\ f[f[path].target].kind = "dir"

\* os.path.isfile(path): follows a symbolic link to its target
IsFile(f, path) ==
    /\ path \in DOMAIN f
    /\ \/ f[path].kind = "reg"
       \/ f[path].kind = "lnk" /\ f[path].target \in DOMAIN f
                               /\ f[f[path].target].kind = "reg"

TestTypeNonRegular(path, st, f) ==
    ~(st.kind # "dir" /\ st.kind # "reg" /\ st.kind # "lnk")

TestPermissionsWorldWritable(path, st, f) ==
    ~(st.kind # "lnk" /\ HasBit(st.perm, S_IWOTH))

TestPermissionsWorldReadable(path, st, f) ==
    ~(st.kind # "lnk" /\ (HasBit(st.perm, S_IROTH) \/ HasBit(st.perm, S_IXOTH)))

TestPermissionsSuid(path, st, f) == ~HasBit(st.perm, S_ISUID)

TestTypeBrokenSymlink(path, st, f) == ~(st.kind = "lnk" /\ ~PathExists(f, path))

TestPermissionsSgid(path, st, f) == ~HasBit(st.perm, S_ISGID)

TestPermissionsWorldReadableDir(path, st, f) ==
    ~(st.kind # "lnk" /\ IsDir(f, path)
      /\ (HasBit(st.perm, S_IROTH) \/ HasBit(st.perm, S_IXOTH)))

TestPermissionsOwner(path, st, f) == ~(st.uid # MyUid)

TestPermissionsGroup(path, st, f) == ~(st.gid # MyGid)

\* TestPermissionsWronglyExecutable._extensions
WronglyExecutableExtensions ==
    {<<".", "j", "p", "g">>,
     <<".", "j", "p", "e", "g">>,
     <<".", "d", "o", "c">>,
     <<".", "x", "m", "l">>,
     <<".", "j", "s">>,
     <<".", "c", "s", "s">>,
     <<".", "p", "n", "g">>,
     <<".", "g", "i", "f">>,
     <<".", "p", "p", "t">>,
     <<".", "v", "s", "d">>,
     <<".", "x", "l", "s">>,
     <<".", "j", "s", "o", "n">>,
     <<".", "h", "t", "m", "l">>,
     <<".", "t", "i", "f", "f">>,
     <<".", "i", "n", "i">>,
     <<".", "j", "a", "v", "a">>,
     <<".", "g", "r", "a", "f", "f", "l", "e">>,
     <<".", "s", "q", "l">>,
     <<".", "j", "a", "r">>,
     <<".", "m", "o", "v">>,
     <<".", "p", "d", "f">>,
     <<".", "p", "r", "o", "p", "e", "r", "t", "i", "e", "s">>,
     <<".", "p", "s", "d">>,
     <<".", "r", "t", "f">>,
     <<".", "d", "v", "i">>,
     <<".", "l", "o", "g">>,
     <<".", "w", "m", "f">>,
     <<".", "t", "x", "t">>,
     <<".", "b", "m", "p">>,
     <<".", "t", "i", "f">>,
     <<".", "c", "d", "r">>,
     <<".", "e", "p", "s">>,
     <<".", "z", "i", "p">>,
     <<".", "a", "v", "i">>,
     <<".", "m", "p", "4">>,
     <<".", "o", "d", "t">>,
     <<".", "c", "s", "v">>,
     <<".", "t", "t", "f">>,
     <<".", "x", "h", "t", "m", "l">>,
     <<".", "t", "b", "z">>,
     <<".", "m", "i", "d">>,
     <<".", "p", "s">>,
     <<".", "s", "w", "f">>,
     <<".", "t", "e", "x">>,
     <<".", "v", "o", "r">>,
     <<".", "d", "o", "t">>,
     <<".", "h", "t", "m">>,
     <<".", "w", "a", "v">>,
     <<".", "m", "p", "3">>,
     <<".", "a", "i", "f">>,
     <<".", "p", "k", "g">>,
     <<".", "i", "d", "x">>,
     <<".", "d", "t", "d">>,
     <<".", "p", "s", "p">>,
     <<".", "s", "v", "g">>,
     <<".", "w", "o", "f", "f">>}

\* (the count of unmatched executable suffixes the rule keeps for debugging is
\* written and never read: it is left out)
TestPermissionsWronglyExecutable(path, st, f) ==
    ~(/\ st.kind # "dir" /\ st.kind # "lnk"
      /\ (HasBit(st.perm, S_IXUSR) \/ HasBit(st.perm, S_IXGRP) \/ HasBit(st.perm, S_IXOTH))
      /\ Lower(Suffix(PathName(path))) \in WronglyExecutableExtensions)

\* TestNameUpperCaseExtension._ok_extensions
OkExtensions == {<<".", "P", "L">>, <<".", "C">>}

TestNameUpperCaseExtension(path, st, f) ==
    LET suffix == Suffix(PathName(path))
    IN  ~(st.kind # "dir" /\ suffix \notin OkExtensions /\ Lower(suffix) # suffix)

\* the check of the owner's bits alone
TestOrphanOwnerOnly(path, st, f) ==
    IF HasBit(st.perm, S_IXUSR) /\ ~HasBit(st.perm, S_IRUSR) THEN FALSE ELSE TRUE

TestPermissionsOrphanExecutableBit(path, st, f) ==
    IF HasBit(st.perm, S_IXUSR) /\ ~HasBit(st.perm, S_IRUSR) THEN FALSE
    ELSE IF HasBit(st.perm, S_IXGRP) /\ ~HasBit(st.perm, S_IRGRP) THEN FALSE
    ELSE IF HasBit(st.perm, S_IXOTH) /\ ~HasBit(st.perm, S_IROTH) THEN FALSE
    ELSE TRUE

\* ^(core|.*~|dead.letter|,.*|.*\.v|.*\.emacs_[0-9]*|.*\.[Bb][Aa][Kk]|.*\.swp)$
TempfileRegexMatch(name) ==
    \/ name = <<"c", "o", "r", "e">>
    \/ EndsWith(name, <<"~">>)
    \/ Len(name) = 11 /\ SubSeq(name, 1, 4) = <<"d", "e", "a", "d">> /\ SubSeq(name, 6, 11) = <<"l", "e", "t", "t", "e", "r">>
    \/ (name # <<>> /\ Head(name) = ",")
    \/ EndsWith(name, <<".", "v">>)
    \/ \E i \in 1..Len(name) :
          /\ i + 6 <= Len(name)
          /\ SubSeq(name, i, i + 6) = <<".", "e", "m", "a", "c", "s", "_">>
          /\ \A j \in (i + 7)..Len(name) : name[j] \in Digits
    \/ (Len(name) >= 4 /\ name[Len(name) - 3] = "."
        /\ Lower(SubSeq(name, Len(name) - 2, Len(name))) = <<"b", "a", "k">>
        /\ \A j \in (Len(name) - 2)..Len(name) : name[j] \in {"b", "B", "a", "A", "k", "K"})
    \/ EndsWith(name, <<".", "s", "w", "p">>)

TestNameTempfile(path, st, f) == ~(st.kind # "dir" /\ TempfileRegexMatch(PathName(path)))

TestNameControlChars(path, st, f) ==
    ~(\E i \in 1..Len(PathName(path)) : IsControl(PathName(path)[i]))

\* the number of spaces the name starts with
LeadingSpaces(name) ==
    CHOOSE n \in 0..Len(name) :
        /\ \A i \in 1..n : name[i] = " "
        /\ n < Len(name) => name[n + 1] # " "

\* the number of spaces the name ends with
TrailingSpaces(name) ==
    CHOOSE n \in 0..Len(name) :
        /\ \A i \in (Len(name) - n + 1)..Len(name) : name[i] = " "
        /\ n < Len(name) => name[Len(name) - n] # " "

\* where `$' matches when it does not match at the end: just before a
\* newline that ends the name
BeforeFinalNewline(name) ==
    IF name # <<>> /\ Last(name) = "\n" THEN Front(name) ELSE name

\* re.compile(r'^ +(.*)$').match(name): `.' matches no newline
SpaceAtStartMatch(name) ==
    /\ LeadingSpaces(name) >= 1
    /\ "\n" \notin Range(BeforeFinalNewline(name))

\* group(1) of that match
SpaceAtStartGroup1(name) == Drop(BeforeFinalNewline(name), LeadingSpaces(name))

TestNameSpaceAtStart(path, st, f) == ~SpaceAtStartMatch(PathName(path))

\* re.compile(r'^(.*?) +$').match(name)
SpaceAtEndMatch(name) ==
    /\ TrailingSpaces(BeforeFinalNewline(name)) >= 1
    /\ "\n" \notin Range(BeforeFinalNewline(name))

\* group(1) of that match
SpaceAtEndGroup1(name) ==
    SubSeq(BeforeFinalNewline(name), 1,
           Len(BeforeFinalNewline(name)) - TrailingSpaces(BeforeFinalNewline(name)))

TestNameSpaceAtEnd(path, st, f) == ~SpaceAtEndMatch(PathName(path))

\* re.compile('  +').search(name)
SpaceDoubleSearch(name) == Contains(name, <<" ", " ">>)

RECURSIVE SpaceDoublePairSub(_)
\* every two adjacent spaces become one: '  ' in place of '  +'
SpaceDoublePairSub(name) ==
    IF name = <<>> THEN <<>>
    ELSE IF Len(name) >= 2 /\ name[1] = " " /\ name[2] = " "
         THEN <<" ">> \o SpaceDoublePairSub(Drop(name, 2))
         ELSE <<Head(name)>> \o SpaceDoublePairSub(Tail(name))

RECURSIVE SpaceDoubleSub(_)
\* re.compile('  +').sub(' ', name): every run of two or more spaces becomes one
SpaceDoubleSub(name) ==
    IF name = <<>> THEN <<>>
    ELSE IF Len(name) >= 2 /\ name[1] = " " /\ name[2] = " "
         THEN <<" ">> \o SpaceDoubleSub(Drop(name, LeadingSpaces(name)))
         ELSE <<Head(name)>> \o SpaceDoubleSub(Tail(name))

TestNameSpaceDouble(path, st, f) == ~SpaceDoubleSearch(PathName(path))

\* re.compile(r'(^-.*|.* -.*)').match(name)
DangerousMatch(name) ==
    \/ (name # <<>> /\ Head(name) = "-")
    \/ Contains(name, <<" ", "-">>)

TestNameDangerous(path, st, f) == ~DangerousMatch(PathName(path))

\* TestSizeZero._allow_list
SizeZeroAllowList == {<<"_", "_", "i", "n", "i", "t", "_", "_", ".", "p", "y">>, <<"L", "O", "C", "K">>}

\* re.compile(r'(?i).*\.lock|.*\.log|.*\.db-wal|.*\.sqlitedb-wal|.*\.sqlite-wal').match
SizeZeroAllowRegexMatch(name) ==
    \E ext \in {<<".", "l", "o", "c", "k">>, <<".", "l", "o", "g">>, <<".", "d", "b", "-", "w", "a", "l">>, <<".", "s", "q", "l", "i", "t", "e", "d", "b", "-", "w", "a", "l">>, <<".", "s", "q", "l", "i", "t", "e", "-", "w", "a", "l">>} :
        Contains(Lower(name), ext)

\* allow_name(name)
AllowName(name) == name \in SizeZeroAllowList \/ SizeZeroAllowRegexMatch(name)

TestSizeZero(path, st, f) ==
    IF st.size = 0
    THEN IF st.kind = "sock" THEN TRUE
         ELSE IF ~AllowName(PathName(path)) THEN FALSE ELSE TRUE
    ELSE TRUE

\* the longest name TestNameLength32 lets pass
NameLengthLimit == 32

TestNameLength32(path, st, f) == ~(Len(PathName(path)) > NameLengthLimit)

TestNameNonAscii(path, st, f) == ~(PathName(path) # Unidecode(PathName(path)))

\* rule._test(path, st) of the rule registered under `rule'
RuleTest(rule, path, st, f) ==
    CASE rule = "type-non-regular" -> TestTypeNonRegular(path, st, f)
      [] rule = "permissions-world-writable" -> TestPermissionsWorldWritable(path, st, f)
      [] rule = "permissions-world-readable" -> TestPermissionsWorldReadable(path, st, f)
      [] rule = "permissions-suid" -> TestPermissionsSuid(path, st, f)
      [] rule = "type-broken-symlink" -> TestTypeBrokenSymlink(path, st, f)
      [] rule = "permissions-sgid" -> TestPermissionsSgid(path, st, f)
      [] rule = "permissions-world-readable-dir" ->
            TestPermissionsWorldReadableDir(path, st, f)
      [] rule = "permissions-owner" -> TestPermissionsOwner(path, st, f)
      [] rule = "permissions-group" -> TestPermissionsGroup(path, st, f)
      [] rule = "permissions-wrongly-executable" ->
            TestPermissionsWronglyExecutable(path, st, f)
      [] rule = "name-uppercase-extension" -> TestNameUpperCaseExtension(path, st, f)
      [] rule = "permissions-orphan-executable-bit" ->
            TestPermissionsOrphanExecutableBit(path, st, f)
      [] rule = "name-tempfile" -> TestNameTempfile(path, st, f)
      [] rule = "name-controlchars" -> TestNameControlChars(path, st, f)
      [] rule = "name-spaceatstart" -> TestNameSpaceAtStart(path, st, f)
      [] rule = "name-spaceatend" -> TestNameSpaceAtEnd(path, st, f)
      [] rule = "name-spacedouble" -> TestNameSpaceDouble(path, st, f)
      [] rule = "name-dangerous" -> TestNameDangerous(path, st, f)
      [] rule = "size-zero" -> TestSizeZero(path, st, f)
      [] rule = "name-len32" -> TestNameLength32(path, st, f)
      [] rule = "name-non-ascii" -> TestNameNonAscii(path, st, f)

\* callable(getattr(rule, 'fix', None))
HasFix(rule) ==
    rule \in { "permissions-world-writable", "permissions-world-readable",
               "permissions-world-readable-dir", "permissions-wrongly-executable",
               "name-uppercase-extension", "name-controlchars", "name-spaceatstart",
               "name-spaceatend", "name-spacedouble" }

\* callable(getattr(rule, 'experimentalfix', None))
HasExperimentalFix(rule) == rule \in {"name-dangerous", "name-len32", "name-non-ascii"}

(***************************************************************************)
(* The filesystem: a function from the existing paths to their entries     *)
(*   [kind, perm, uid, gid, size, ino, target, lines]                      *)
(* kind is "reg", "dir", "lnk", "fifo" or "sock"; target is the path a     *)
(* symbolic link points to; lines is the text of a regular file, as the    *)
(* sequence of its lines.  Every directory is writable by the process.     *)
(***************************************************************************)
\* Path.lstat(): the snapshot of the entry itself, a link not followed
Lstat(f, path) ==
    [kind |-> f[path].kind, perm |-> f[path].perm, uid |-> f[path].uid,
     gid |-> f[path].gid, size |-> f[path].size, ino |-> f[path].ino]

\* the entry a path resolves to, a symbolic link followed
Resolve(f, path) == IF f[path].kind = "lnk" THEN f[path].target ELSE path

\* os.chmod(path, mode) raises: no such entry, or not the owner's process
ChmodRaises(f, path) ==
    \/ ~PathExists(f, path)
    \/ f[Resolve(f, path)].uid # MyUid

\* the filesystem after os.chmod(path, mode)
Chmod(f, path, mode) == [f EXCEPT ![Resolve(f, path)].perm = mode]

\* the paths at and below path
Subtree(f, path) == {q \in DOMAIN f : IsPrefix(path, q)}

\* os.rename(src, dst) raises: no source, a directory onto a non-directory or
\* onto a directory that is not empty, a non-directory onto a directory
RenameRaises(f, src, dst) ==
    \/ src \notin DOMAIN f
    \/ /\ src # dst
       /\ dst \in DOMAIN f
       /\ \/ f[src].kind = "dir" /\ f[dst].kind # "dir"
          \/ f[src].kind = "dir" /\ Subtree(f, dst) # {dst}
          \/ f[src].kind # "dir" /\ f[dst].kind = "dir"

\* the filesystem after os.rename(src, dst): the source and what is below it
\* move, an entry that was at dst is replaced
Rename(f, src, dst) ==
    IF src = dst THEN f
    ELSE LET moved == Subtree(f, src)
             kept  == (DOMAIN f \ moved) \ Subtree(f, dst)
             to(q) == dst \o Drop(q, Len(src))
         IN  [q \in kept \cup {to(m) : m \in moved} |->
                 IF IsPrefix(dst, q) THEN f[src \o Drop(q, Len(dst))] ELSE f[q]]

(***************************************************************************)
(* The fix actions.  Each gives [raised, fs, echo]: whether the call       *)
(* raised, the filesystem after it, and the lines it printed.              *)
(***************************************************************************)
FixDone(f) == [raised |-> FALSE, fs |-> f, echo |-> <<>>]

FixRaised(f) == [raised |-> TRUE, fs |-> f, echo |-> <<>>]

\* os.chmod(path, mode) as a fix step
DoChmod(f, path, mode) ==
    IF ChmodRaises(f, path) THEN FixRaised(f) ELSE FixDone(Chmod(f, path, mode))

\* new_path = path.with_name(newname); os.rename(path, new_path)
DoRename(f, path, newname) ==
    IF WithNameRaises(newname) \/ RenameRaises(f, path, WithName(path, newname))
    THEN FixRaised(f)
    ELSE FixDone(Rename(f, path, WithName(path, newname)))

\* TestPermissionsWorldWritable.fix
FixPermissionsWorldWritable(path, st, f) == DoChmod(f, path, ClearBit(st.perm, S_IWOTH))

\* the fix that clears the read bit of the others and leaves their execute bit
FixWorldReadableReadBitOnly(path, st, f) == DoChmod(f, path, ClearBit(st.perm, S_IROTH))

\* TestPermissionsWorldReadable.fix
FixPermissionsWorldReadable(path, st, f) ==
    DoChmod(f, path, ClearBit(ClearBit(st.perm, S_IROTH), S_IXOTH))

\* TestPermissionsWorldReadableDir.fix
FixPermissionsWorldReadableDir(path, st, f) ==
    DoChmod(f, path, ClearBit(ClearBit(st.perm, S_IROTH), S_IXOTH))

\* TestPermissionsWronglyExecutable.fix
FixPermissionsWronglyExecutable(path, st, f) ==
    DoChmod(f, path, ClearBit(ClearBit(ClearBit(st.perm, S_IXOTH), S_IXGRP), S_IXUSR))

\* TestNameUpperCaseExtension.fix
FixNameUpperCaseExtension(path, st, f) ==
    DoRename(f, path, Stem(PathName(path)) \o Lower(Suffix(PathName(path))))

\* TestNameControlChars.fix
FixNameControlChars(path, st, f) ==
    DoRename(f, path, SelectSeq(PathName(path), LAMBDA ch : ~IsControl(ch)))

\* TestNameSpaceAtStart.fix
FixNameSpaceAtStart(path, st, f) ==
    IF SpaceAtStartMatch(PathName(path))
    THEN DoRename(f, path, SpaceAtStartGroup1(PathName(path)))
    ELSE FixDone(f)

\* TestNameSpaceAtEnd.fix
FixNameSpaceAtEnd(path, st, f) ==
    IF SpaceAtEndMatch(PathName(path))
    THEN DoRename(f, path, SpaceAtEndGroup1(PathName(path)))
    ELSE FixDone(f)

\* TestNameSpaceDouble.fix
FixNameSpaceDouble(path, st, f) ==
    IF SpaceDoubleSub(PathName(path)) # <<>>
    THEN DoRename(f, path, SpaceDoubleSub(PathName(path)))
    ELSE FixDone(f)

\* rule.fix(path, st) of the rule registered under `rule'
RuleFix(rule, path, st, f) ==
    CASE rule = "permissions-world-writable" -> FixPermissionsWorldWritable(path, st, f)
      [] rule = "permissions-world-readable" -> FixPermissionsWorldReadable(path, st, f)
      [] rule = "permissions-world-readable-dir" ->
            FixPermissionsWorldReadableDir(path, st, f)
      [] rule = "permissions-wrongly-executable" ->
            FixPermissionsWronglyExecutable(path, st, f)
      [] rule = "name-uppercase-extension" -> FixNameUpperCaseExtension(path, st, f)
      [] rule = "name-controlchars" -> FixNameControlChars(path, st, f)
      [] rule = "name-spaceatstart" -> FixNameSpaceAtStart(path, st, f)
      [] rule = "name-spaceatend" -> FixNameSpaceAtEnd(path, st, f)
      [] rule = "name-spacedouble" -> FixNameSpaceDouble(path, st, f)

(***************************************************************************)
(* The experimental fixes: they print and change nothing.  A printed line  *)
(* is [tag, path, text]: the path the line names (<<>> if none) and the    *)
(* rest of its text.                                                       *)
(***************************************************************************)
Line(tag, path, text) == [tag |-> tag, path |-> path, text |-> text]

\* the characters str.strip() removes
Whitespace == {" ", "\t", "\r"}

RECURSIVE LStrip(_)
LStrip(s) == IF s # <<>> /\ Head(s) \in Whitespace THEN LStrip(Tail(s)) ELSE s

RECURSIVE RStrip(_)
RStrip(s) == IF s # <<>> /\ Last(s) \in Whitespace THEN RStrip(Front(s)) ELSE s

\* str.strip()
Strip(s) == RStrip(LStrip(s))

RECURSIVE ReplaceSpaceDash(_)
\* str.replace(' -', '-')
ReplaceSpaceDash(s) ==
    IF s = <<>> THEN <<>>
    ELSE IF Len(s) >= 2 /\ s[1] = " " /\ s[2] = "-"
         THEN <<"-">> \o ReplaceSpaceDash(Drop(s, 2))
         ELSE <<Head(s)>> \o ReplaceSpaceDash(Tail(s))

\* the experimental fix with its os.rename carried out
ExperimentalFixNameDangerousRenames(path, st, f) ==
    DoRename(f, path,
             ReplaceSpaceDash(Strip(Stem(PathName(path)))) \o Suffix(PathName(path)))

\* TestNameDangerous.experimentalfix: prints the proposed path
ExperimentalFixNameDangerous(path, st, f) ==
    LET newname == ReplaceSpaceDash(Strip(Stem(PathName(path)))) \o Suffix(PathName(path))
    IN  IF WithNameRaises(newname) THEN FixRaised(f)
        ELSE [raised |-> FALSE, fs |-> f,
              echo |-> <<Line("ECHO", WithName(path, newname), "")>>]

\* the characters slugify keeps (after lowering): [-a-zA-Z0-9]
SlugChars == {"-"} \cup Digits \cup
    {"a", "b", "c", "d", "e", "f", "g", "h", "i", "j", "k", "l", "m",
     "n", "o", "p", "q", "r", "s", "t", "u", "v", "w", "x", "y", "z"}

RECURSIVE SlugDashes(_)
\* slugify: every run of characters outside SlugChars, and every run of
\* dashes, becomes one dash
SlugDashes(s) ==
    IF s = <<>> THEN <<>>
    ELSE LET c    == IF Head(s) \in SlugChars THEN Head(s) ELSE "-"
             rest == SlugDashes(Tail(s))
         IN  IF c = "-" /\ rest # <<>> /\ Head(rest) = "-" THEN rest ELSE <<c>> \o rest

RECURSIVE StripDashes(_)
\* str.strip('-')
StripDashes(s) ==
    IF s # <<>> /\ Head(s) = "-" THEN StripDashes(Tail(s))
    ELSE IF s # <<>> /\ Last(s) = "-" THEN StripDashes(Front(s))
    ELSE s

RECURSIVE SplitDash(_)
\* str.split('-')
SplitDash(s) ==
    IF \A i \in 1..Len(s) : s[i] # "-" THEN <<s>>
    ELSE LET k == CHOOSE i \in 1..Len(s) :
                    s[i] = "-" /\ \A j \in 1..(i - 1) : s[j] # "-"
         IN  <<SubSeq(s, 1, k - 1)>> \o SplitDash(Drop(s, k))

RECURSIVE JoinDash(_)
\* '-'.join(words)
JoinDash(words) ==
    IF words = <<>> THEN <<>>
    ELSE IF Len(words) = 1 THEN words[1]
    ELSE words[1] \o <<"-">> \o JoinDash(Tail(words))

\* TestNameLength32._stopwords
Stopwords == {<<"p", "i", "c", "t", "u", "r", "e", "s">>, <<"p", "i", "c", "t", "u", "r", "e">>, <<"i", "m", "a", "g", "e", "s">>, <<"i", "m", "a", "g", "e">>, <<"i", "m", "g">>}

\* slugify(text, max_length=n, word_boundary=False, stopwords=Stopwords)
Slugify(text, n) ==
    LET clean == StripDashes(SlugDashes(Lower(Unidecode(text))))
        words == SelectSeq(SplitDash(clean), LAMBDA w : w \notin Stopwords)
        kept  == StripDashes(JoinDash(words))
    IN  IF n <= 0 \/ Len(kept) < n THEN kept
        ELSE StripDashes(SubSeq(kept, 1, n))

\* TestNameLength32.experimentalfix: prints the proposed name, and a second
\* line when an entry of that name exists
ExperimentalFixNameLength32(path, st, f) ==
    LET suffix  == Suffix(PathName(path))
        newname == Slugify(Stem(PathName(path)), NameLengthLimit - Len(suffix)) \o suffix
    IN  IF WithNameRaises(newname) THEN FixRaised(f)
        ELSE [raised |-> FALSE, fs |-> f,
              echo |-> <<Line("ECHO", <<>>, newname)>> \o
                       (IF PathExists(f, WithName(path, newname))
                        THEN <<Line("ECHO", <<>>, "ERROR: Already exists!")>>
                        ELSE <<>>)]

\* TestNameNonAscii.experimentalfix: prints the old and the proposed path
ExperimentalFixNameNonAscii(path, st, f) ==
    LET newname == [i \in 1..Len(Unidecode(PathName(path))) |->
                       IF Unidecode(PathName(path))[i] = "/" THEN "_"
                       ELSE Unidecode(PathName(path))[i]]
    IN  IF Unidecode(PathName(path)) = PathName(path) THEN FixDone(f)
        ELSE IF WithNameRaises(newname) THEN FixRaised(f)
        ELSE [raised |-> FALSE, fs |-> f,
              echo |-> <<Line("ECHO", path, WithName(path, newname))>>]

\* rule.experimentalfix(path, st) of the rule registered under `rule'
RuleExperimentalFix(rule, path, st, f) ==
    CASE rule = "name-dangerous" -> ExperimentalFixNameDangerous(path, st, f)
      [] rule = "name-len32" -> ExperimentalFixNameLength32(path, st, f)
      [] rule = "name-non-ascii" -> ExperimentalFixNameNonAscii(path, st, f)

\* rule.__doc__: the description --list-tests prints
RuleDoc(rule) ==
    CASE rule = "type-non-regular" -> "Test if path is one of file, directory, symbolic link."
      [] rule = "permissions-world-writable" -> "Test for world writable files."
      [] rule = "permissions-world-readable" -> "Test for world readable/executable paths."
      [] rule = "permissions-suid" -> "Test for paths with SUID bit."
      [] rule = "type-broken-symlink" -> "Test for broken symlinks."
      [] rule = "permissions-sgid" -> "Test for paths with SGID bit."
      [] rule = "permissions-world-readable-dir" -> "Test for 'other' readable dirs."
      [] rule = "permissions-owner" -> "Test for file ownership."
      [] rule = "permissions-group" -> "Test for group ownership."
      [] rule = "permissions-wrongly-executable" ->
            "Test for executable bit on known file types."
      [] rule = "name-uppercase-extension" ->
            "Test for filenames with upper case extensions."
      [] rule = "permissions-orphan-executable-bit" ->
            "Test for files with an orphaned executable bit."
      [] rule = "name-tempfile" ->
            "Test if file seems to be a temporary file, based on its name."
      [] rule = "name-controlchars" -> "Test if filename contains control characters."
      [] rule = "name-spaceatstart" -> "Test if filename starts with one or more spaces."
      [] rule = "name-spaceatend" -> "Test if filename ends with one or more spaces."
      [] rule = "name-spacedouble" ->
            "Test if filename has two or more adjacent spaces in the name."
      [] rule = "name-dangerous" ->
            "Test if file has a dangerous name, in particular with regards to commands."
      [] rule = "size-zero" -> "Test if file has 0 byte size."
      [] rule = "name-len32" -> "Test if filename is longer than 32 characters."
      [] rule = "name-non-ascii" -> "Test if filename is encoded in non ascii."

(***************************************************************************)
(* The state of one run of the command.                                    *)
(***************************************************************************)
VARIABLES
    args,       \* the command line: paths and options, and the global git excludes file
    fs,         \* the filesystem
    pc,         \* where the command is: "parse", "main", "walk", "lint", "finish", "done"
    exclude,    \* the pattern tuple `exclude' (ignore_spec is compiled from it)
    tests,      \* linter.tests: the registered rules, in order
    counters,   \* per rule: the lists failed and ok, and total
    gen,        \* the walk_filesystem generator: where it is suspended
    output,     \* the lines printed so far
    exitCode,   \* the exit code of the process, -1 while it runs
    exc,        \* the exception that ended the run, "" if none
    trace       \* what the run did so far, in order (history)

vars == <<args, fs, pc, exclude, tests, counters, gen, output, exitCode, exc, trace>>

NoStat == [kind |-> "none", perm |-> 0, uid |-> "", gid |-> "", size |-> 0, ino |-> 0]

\* one step of the history: what was done, during the walk of which root
\* argument, on which path, with which snapshot, for which rule(s).  The
\* steps: "configure" (rules: the registered rules), "scandir" (a directory
\* is listed, raised: the listing failed), "read" (a .gitignore is read),
\* "entry" (an entry of the listed directory; rule: "dir" or "file", rules:
\* the local spec of the directory), "yield", "lstat", "test" (rules: the
\* rules called), "report" (rules: the rules that failed), "fix",
\* "experimentalfix", "exhausted", "exit" (raised: by an exception)
Ev(ev, root, path, st, rule, rules, raised) ==
    [ev |-> ev, root |-> root, path |-> path, st |-> st, rule |-> rule,
     rules |-> rules, raised |-> raised]

(***************************************************************************)
(* click: the declaration of the command (the decorators of fs_lint).      *)
(***************************************************************************)
\* @click.argument('paths', type=click.Path(exists=True), nargs=-1): a path
\* that os.stat cannot find is a usage error, raised before fs_lint is called
ClickPathsExist(f, paths) == \A i \in 1..Len(paths) : PathExists(f, paths[i])

ClickReject ==
    /\ pc = "parse"
    /\ ~ClickPathsExist(fs, args.paths)
    /\ output' = Append(output, Line("USAGE_ERROR", <<>>, "does not exist"))
    /\ exitCode' = 2
    /\ pc' = "done"
    /\ trace' = Append(trace, Ev("exit", 0, <<>>, NoStat, "", <<>>, FALSE))
    /\ UNCHANGED <<args, fs, exclude, tests, counters, gen, exc>>

ClickAccept ==
    /\ pc = "parse"
    /\ ClickPathsExist(fs, args.paths)
    /\ pc' = "main"
    /\ UNCHANGED <<args, fs, exclude, tests, counters, gen, output, exitCode, exc, trace>>

(***************************************************************************)
(* fs_lint: --list-tests, the empty path list, the configuration.          *)
(***************************************************************************)
RECURSIVE SortedNames(_)
\* sorted(names) for rule names: insertion into the sorted rest
SortedNames(names) ==
    IF names = <<>> THEN <<>>
    ELSE LET rest == SortedNames(Tail(names))
             x    == Head(names)
         IN  SelectSeq(rest, LAMBDA y : NameLess(y, x)) \o <<x>> \o
             SelectSeq(rest, LAMBDA y : ~NameLess(y, x))

\* the list without its last rule
ListTestsLinesShort ==
    [i \in 1..(Len(Registry) - 1) |->
        Line("LIST", <<>>, <<SortedNames(Registry)[i], RuleDoc(SortedNames(Registry)[i])>>)]

\* the lines of --list-tests: name and description of every registered rule
ListTestsLines ==
    [i \in 1..Len(Registry) |->
        Line("LIST", <<>>, <<SortedNames(Registry)[i], RuleDoc(SortedNames(Registry)[i])>>)]

\* the exit code of the --list-tests branch (return 0)
ListTestsExit == 0

ListTests ==
    /\ pc = "main"
    /\ args.list_tests
    /\ output' = output \o ListTestsLines
    /\ exitCode' = ListTestsExit
    /\ pc' = "done"
    /\ trace' = Append(trace, Ev("exit", 0, <<>>, NoStat, "", <<>>, FALSE))
    /\ UNCHANGED <<args, fs, exclude, tests, counters, gen, exc>>

\* ctx.exit() with the default code
UsageExitZero == 1 - 1

\* the exit code of the branch without paths (ctx.exit(1))
UsageExit == 1

Usage ==
    /\ pc = "main"
    /\ ~args.list_tests
    /\ args.paths = <<>>
    /\ output' = Append(output, Line("USAGE", <<>>, "Usage"))
    /\ exitCode' = UsageExit
    /\ pc' = "done"
    /\ trace' = Append(trace, Ev("exit", 0, <<>>, NoStat, "", <<>>, FALSE))
    /\ UNCHANGED <<args, fs, exclude, tests, counters, gen, exc>>

\* readlines(fname): the lines of the file, () when it cannot be opened
ReadLines(f, fname) ==
    IF IsFile(f, fname) /\ (f[Resolve(f, fname)].uid # MyUid
                            \/ HasBit(f[Resolve(f, fname)].perm, S_IRUSR))
                        /\ (f[Resolve(f, fname)].uid = MyUid
                            \/ HasBit(f[Resolve(f, fname)].perm, S_IROTH))
    THEN f[Resolve(f, fname)].lines
    ELSE <<>>

\* the tuple without '.*', whether --hidden is given or not
BuildExcludeNoDot(a) ==
    IF a.skip_vcs_ignore THEN a.exclude ELSE a.exclude \o a.gitexcludes

\* the tuple `exclude' after the options are read: the --exclude patterns,
\* the lines of the global git excludes file unless --skip-vcs-ignores, and
\* '.*' in front unless --hidden
BuildExclude(a) ==
    LET e1 == IF a.skip_vcs_ignore THEN a.exclude ELSE a.exclude \o a.gitexcludes
    IN  IF a.hidden THEN e1 ELSE <<(<<".", "*">>)>> \o e1

\* --skip-test honoured also when --limit is given
IsActiveSkipFirst(rule, limit, skip_test) ==
    rule \notin Range(skip_test) /\ (limit = <<>> \/ rule \in Range(limit))

\* whether the loop over linterdex.keys() registers the rule
IsActive(rule, limit, skip_test) ==
    IF limit # <<>> THEN rule \in Range(limit) ELSE rule \notin Range(skip_test)

\* linter.tests after the loop over linterdex.keys()
ActiveTests(limit, skip_test) ==
    SelectSeq(Registry, LAMBDA rule : IsActive(rule, limit, skip_test))

Configure ==
    /\ pc = "main"
    /\ ~args.list_tests
    /\ args.paths # <<>>
    /\ exclude' = BuildExclude(args)
    /\ tests' = ActiveTests(args.limit, args.skip_test)
    /\ pc' = "walk"
    /\ trace' = Append(trace, Ev("configure", 0, <<>>, NoStat, "",
                                 ActiveTests(args.limit, args.skip_test), FALSE))
    /\ UNCHANGED <<args, fs, counters, gen, output, exitCode, exc>>

(***************************************************************************)
(* walk_filesystem: a generator.  Between two yields it runs the steps     *)
(* below; at a yield the path is in gen.cur and FSLinter.__call__ runs.    *)
(* gen.stack holds the directories os.walk has still to list.              *)
(***************************************************************************)
GenInit ==
    [phase |-> "root", root |-> 1, stack |-> <<>>, top |-> <<>>, dirs |-> <<>>,
     files |-> <<>>, spec |-> <<>>, idx |-> 0, cur |-> <<>>]

\* an uncaught exception ends the process with exit code 1
UncaughtExit == 1

\* the names of the entries of directory top
Children(f, top) == {Last(q) : q \in {c \in DOMAIN f : Len(c) = Len(top) + 1 /\ IsPrefix(top, c)}}

\* os.scandir(top) raises OSError: no such directory, or no right to read it
ScandirFails(f, top) ==
    IF ~IsDir(f, top) THEN TRUE
    ELSE IF f[Resolve(f, top)].uid = MyUid
         THEN ~HasBit(f[Resolve(f, top)].perm, S_IRUSR)
         ELSE ~HasBit(f[Resolve(f, top)].perm, S_IROTH)

\* os.path.islink(path)
IsLink(f, path) == path \in DOMAIN f /\ f[path].kind = "lnk"

GitIgnoreName == <<".", "g", "i", "t", "i", "g", "n", "o", "r", "e">>

\* the global spec for every directory, whatever .gitignore it holds
LocalIgnoreSpecGlobalOnly(f, top, files, skip_vcs_ignore, excl) == excl

\* the lines of the .gitignore in front of the global patterns
LocalIgnoreSpecLinesFirst(f, top, files, skip_vcs_ignore, excl) ==
    IF ~skip_vcs_ignore /\ GitIgnoreName \in Range(files)
    THEN ReadLines(f, Append(top, GitIgnoreName)) \o excl
    ELSE excl

\* local_ignore_spec for the directory top with the file names listed in it
LocalIgnoreSpec(f, top, files, skip_vcs_ignore, excl) ==
    IF ~skip_vcs_ignore /\ GitIgnoreName \in Range(files)
    THEN excl \o ReadLines(f, Append(top, GitIgnoreName))
    ELSE excl

\* the list left as it is
FilterNamesKeepAll(names, spec) == names

\* [d for d in dirs if not local_ignore_spec.match_file(d)]
FilterNames(names, spec) == SelectSeq(names, LAMBDA n : ~MatchFile(spec, n))

\* the directories os.walk descends into after walk_filesystem has filtered
\* dirs in place: those left in the list that are no symbolic links
DescendDirs(f, top, dirs) ==
    LET paths == [i \in 1..Len(dirs) |-> Append(top, dirs[i])]
    IN  SelectSeq(paths, LAMBDA d : ~IsLink(f, d))

RECURSIVE EntryEvents(_, _, _, _, _)
\* the history of one listing: an "entry" step for each name (the history
\* does not keep the order of the listing)
EntryEvents(root, top, names, kind, spec) ==
    IF names = {} THEN <<>>
    ELSE LET n == CHOOSE x \in names : TRUE
         IN  <<Ev("entry", root, Append(top, n), NoStat, kind, spec, FALSE)>>
             \o EntryEvents(root, top, names \ {n}, kind, spec)

\* for start_path in paths: a directory is walked, a file is yielded, anything
\* else raises ValueError; after the last one the generator is exhausted
WalkRoot ==
    /\ pc = "walk"
    /\ gen.phase = "root"
    /\ \/ /\ gen.root > Len(args.paths)
          /\ gen' = [gen EXCEPT !.phase = "end"]
          /\ pc' = "finish"
          /\ trace' = Append(trace, Ev("exhausted", 0, <<>>, NoStat, "", <<>>, FALSE))
          /\ UNCHANGED <<exitCode, exc>>
       \/ /\ gen.root <= Len(args.paths)
          /\ IsDir(fs, args.paths[gen.root])
          /\ gen' = [gen EXCEPT !.phase = "scan", !.stack = <<args.paths[gen.root]>>]
          /\ UNCHANGED <<pc, exitCode, exc, trace>>
       \/ /\ gen.root <= Len(args.paths)
          /\ ~IsDir(fs, args.paths[gen.root])
          /\ IsFile(fs, args.paths[gen.root])
          /\ gen' = [gen EXCEPT !.cur = args.paths[gen.root], !.root = gen.root + 1]
          /\ pc' = "lint"
          /\ trace' = Append(trace, Ev("yield", gen.root, args.paths[gen.root],
                                       NoStat, "", <<>>, FALSE))
          /\ UNCHANGED <<exitCode, exc>>
       \/ /\ gen.root <= Len(args.paths)
          /\ ~IsDir(fs, args.paths[gen.root])
          /\ ~IsFile(fs, args.paths[gen.root])
          /\ exc' = "ValueError"
          /\ exitCode' = UncaughtExit
          /\ pc' = "done"
          /\ trace' = Append(trace, Ev("exit", gen.root, args.paths[gen.root],
                                       NoStat, "", <<>>, TRUE))
          /\ UNCHANGED gen
    /\ UNCHANGED <<args, fs, exclude, tests, counters, output>>

\* os.walk takes the next directory: lists it (in the order the filesystem
\* gives, directories and other entries apart); walk_filesystem builds the
\* local spec and filters dirs in place
WalkScan ==
    /\ pc = "walk"
    /\ gen.phase = "scan"
    /\ \/ /\ gen.stack = <<>>
          /\ gen' = [gen EXCEPT !.phase = "root", !.root = gen.root + 1]
          /\ UNCHANGED trace
       \/ /\ gen.stack # <<>>
          /\ ScandirFails(fs, Head(gen.stack))
          /\ gen' = [gen EXCEPT !.stack = Tail(gen.stack)]
          /\ trace' = Append(trace, Ev("scandir", gen.root, Head(gen.stack),
                                       NoStat, "", <<>>, TRUE))
       \/ /\ gen.stack # <<>>
          /\ ~ScandirFails(fs, Head(gen.stack))
          /\ LET top      == Head(gen.stack)
                 dirnames == {n \in Children(fs, top) : IsDir(fs, Append(top, n))}
             IN  \E dirs \in Orderings(dirnames),
                    files \in Orderings(Children(fs, top) \ dirnames) :
                    LET spec == LocalIgnoreSpec(fs, top, files, args.skip_vcs_ignore,
                                                exclude)
                    IN  /\ gen' = [gen EXCEPT !.phase = "dirs", !.top = top,
                                              !.stack = Tail(gen.stack),
                                              !.dirs = FilterNames(dirs, spec),
                                              !.files = files,
                                              !.spec = spec, !.idx = 1]
                        /\ trace' = trace
                              \o <<Ev("scandir", gen.root, top, NoStat, "", <<>>, FALSE)>>
                              \o (IF ~args.skip_vcs_ignore /\ GitIgnoreName \in Range(files)
                                  THEN <<Ev("read", gen.root, Append(top, GitIgnoreName),
                                            NoStat, "", <<>>, FALSE)>>
                                  ELSE <<>>)
                              \o EntryEvents(gen.root, top, dirnames, "dir", spec)
                              \o EntryEvents(gen.root, top, Children(fs, top) \ dirnames,
                                             "file", spec)
    /\ UNCHANGED <<args, fs, pc, exclude, tests, counters, output, exitCode, exc>>

\* for relpath in dirs: yield; then files is filtered in place
WalkDirs ==
    /\ pc = "walk"
    /\ gen.phase = "dirs"
    /\ \/ /\ gen.idx <= Len(gen.dirs)
          /\ gen' = [gen EXCEPT !.cur = Append(gen.top, gen.dirs[gen.idx]),
                                !.idx = gen.idx + 1]
          /\ pc' = "lint"
          /\ trace' = Append(trace, Ev("yield", gen.root,
                                       Append(gen.top, gen.dirs[gen.idx]),
                                       NoStat, "", <<>>, FALSE))
       \/ /\ gen.idx > Len(gen.dirs)
          /\ gen' = [gen EXCEPT !.phase = "files", !.idx = 1,
                                !.files = FilterNames(gen.files, gen.spec)]
          /\ UNCHANGED <<pc, trace>>
    /\ UNCHANGED <<args, fs, exclude, tests, counters, output, exitCode, exc>>

\* for relpath in files: yield; then os.walk goes on with the directories
\* left in dirs
WalkFiles ==
    /\ pc = "walk"
    /\ gen.phase = "files"
    /\ \/ /\ gen.idx <= Len(gen.files)
          /\ gen' = [gen EXCEPT !.cur = Append(gen.top, gen.files[gen.idx]),
                                !.idx = gen.idx + 1]
          /\ pc' = "lint"
          /\ trace' = Append(trace, Ev("yield", gen.root,
                                       Append(gen.top, gen.files[gen.idx]),
                                       NoStat, "", <<>>, FALSE))
       \/ /\ gen.idx > Len(gen.files)
          /\ gen' = [gen EXCEPT !.phase = "scan",
                                !.stack = DescendDirs(fs, gen.top, gen.dirs) \o gen.stack]
          /\ UNCHANGED <<pc, trace>>
    /\ UNCHANGED <<args, fs, exclude, tests, counters, output, exitCode, exc>>

(***************************************************************************)
(* FSLinter.__call__ and TestBase.__call__.                                *)
(***************************************************************************)
\* failures = [test for test in self.tests if not test(path, st)]: the rules
\* whose call returns False
Failures(ts, path, st, f) == SelectSeq(ts, LAMBDA rule : ~RuleTest(rule, path, st, f))

\* total counted only for the calls that return False
CallRuleFailedOnly(cnt, rule, path, passed) ==
    IF passed
    THEN [cnt EXCEPT ![rule].ok = Append(@, path)]
    ELSE [cnt EXCEPT ![rule].total = @ + 1, ![rule].failed = Append(@, path)]

\* TestBase.__call__ and TestBase.test, for the call that returned `passed':
\* total goes up by one and the path is added to ok or to failed
CallRule(cnt, rule, path, passed) ==
    IF passed
    THEN [cnt EXCEPT ![rule].total = @ + 1, ![rule].ok = Append(@, path)]
    ELSE [cnt EXCEPT ![rule].total = @ + 1, ![rule].failed = Append(@, path)]

RECURSIVE CallRules(_, _, _, _)
\* the counters after the calls of the list comprehension: every rule of ts
\* was called once on the path, those of `failures' returned False
CallRules(cnt, ts, failures, path) ==
    IF ts = <<>> THEN cnt
    ELSE CallRules(CallRule(cnt, Head(ts), path, Head(ts) \notin Range(failures)),
                   Tail(ts), failures, path)

RECURSIVE JoinComma(_)
\* ','.join(names)
JoinComma(names) ==
    IF names = <<>> THEN <<>>
    ELSE IF Len(names) = 1 THEN <<names[1]>>
    ELSE <<names[1], ",">> \o JoinComma(Tail(names))

\* the tag without sorted(): the names in the order of registration
FailTagUnsorted(failures) == JoinComma(failures)

\* 'FAIL[%s]:' % ','.join(sorted(test.name for test in failures))
FailTag(failures) == JoinComma(SortedNames(failures))

\* which action the loop over failures calls for a failed rule: "fix",
\* "experimentalfix" or "" for none
FixDispatch(rule, experimental) ==
    IF HasFix(rule) THEN "fix"
    ELSE IF experimental /\ HasExperimentalFix(rule) THEN "experimentalfix"
    ELSE ""

\* the call the loop makes for one failed rule
CallFix(kind, rule, path, st, f) ==
    IF kind = "fix" THEN RuleFix(rule, path, st, f)
    ELSE RuleExperimentalFix(rule, path, st, f)

RECURSIVE FixLoopFreshStat(_, _, _, _, _, _)
\* the loop with a new lstat of the path before every fix
FixLoopFreshStat(failures, path, st, f, experimental, root) ==
    IF failures = <<>>
    THEN [fs |-> f, echo |-> <<>>, events |-> <<>>, raised |-> FALSE]
    ELSE LET rule == Head(failures)
             kind == FixDispatch(rule, experimental)
             now  == IF path \in DOMAIN f THEN Lstat(f, path) ELSE st
         IN  IF kind = ""
             THEN FixLoopFreshStat(Tail(failures), path, st, f, experimental, root)
             ELSE LET res == CallFix(kind, rule, path, now, f)
                      ev  == Ev(kind, root, path, now, rule, <<>>, res.raised)
                  IN  IF res.raised
                      THEN [fs |-> res.fs, echo |-> res.echo, events |-> <<ev>>,
                            raised |-> TRUE]
                      ELSE LET more == FixLoopFreshStat(Tail(failures), path, st,
                                                        res.fs, experimental, root)
                           IN  [fs |-> more.fs, echo |-> res.echo \o more.echo,
                                events |-> <<ev>> \o more.events,
                                raised |-> more.raised]

RECURSIVE FixLoop(_, _, _, _, _, _)
\* for failure in failures: ...  Gives [fs, echo, events, raised]; an
\* exception raised by a fix leaves the loop (and the call)
FixLoop(failures, path, st, f, experimental, root) ==
    IF failures = <<>>
    THEN [fs |-> f, echo |-> <<>>, events |-> <<>>, raised |-> FALSE]
    ELSE LET rule == Head(failures)
             kind == FixDispatch(rule, experimental)
         IN  IF kind = ""
             THEN FixLoop(Tail(failures), path, st, f, experimental, root)
             ELSE LET res == CallFix(kind, rule, path, st, f)
                      ev  == Ev(kind, root, path, st, rule, <<>>, res.raised)
                  IN  IF res.raised
                      THEN [fs |-> res.fs, echo |-> res.echo, events |-> <<ev>>,
                            raised |-> TRUE]
                      ELSE LET more == FixLoop(Tail(failures), path, st, res.fs,
                                               experimental, root)
                           IN  [fs |-> more.fs, echo |-> res.echo \o more.echo,
                                events |-> <<ev>> \o more.events,
                                raised |-> more.raised]

\* the loop over the failures entered whether --fix is given or not
EntersFixLoopAlways(failures, fix) == failures # <<>>

\* if failures: ... if self._fix: the loop over the failures is entered
EntersFixLoop(failures, fix) == failures # <<>> /\ fix

\* the OK line printed whether --verbose is given or not
ReportLinesOkAlways(failures, path, verbose) ==
    IF failures # <<>> THEN <<Line("FAIL", path, FailTag(failures))>>
    ELSE <<Line("OK", path, "")>>

\* the line FSLinter.__call__ prints for the path: FAIL with the tag if a rule
\* failed, OK if none failed and --verbose is given, none otherwise
ReportLines(failures, path, verbose) ==
    IF failures # <<>> THEN <<Line("FAIL", path, FailTag(failures))>>
    ELSE IF verbose THEN <<Line("OK", path, "")>> ELSE <<>>

\* the root argument during whose walk the current path was yielded
YieldRoot == IF gen.phase = "root" THEN gen.root - 1 ELSE gen.root

\* linter(path): snapshot, every registered rule, the report line, the fixes
Lint ==
    /\ pc = "lint"
    /\ gen.cur \in DOMAIN fs
    /\ LET path     == gen.cur
           st       == Lstat(fs, path)
           failures == Failures(tests, path, st, fs)
           fixes    == IF EntersFixLoop(failures, args.fix)
                       THEN FixLoop(failures, path, st, fs, args.experimental,
                                    YieldRoot)
                       ELSE [fs |-> fs, echo |-> <<>>, events |-> <<>>,
                             raised |-> FALSE]
       IN  /\ counters' = CallRules(counters, tests, failures, path)
           /\ output' = output \o ReportLines(failures, path, args.verbose) \o fixes.echo
           /\ fs' = fixes.fs
           /\ trace' = trace
                 \o <<Ev("lstat", YieldRoot, path, st, "", <<>>, FALSE),
                      Ev("test", YieldRoot, path, st, "", tests, FALSE),
                      Ev("report", YieldRoot, path, st, "", failures, FALSE)>>
                 \o fixes.events
                 \o (IF fixes.raised
                     THEN <<Ev("exit", YieldRoot, path, st, "", <<>>, TRUE)>>
                     ELSE <<>>)
           /\ IF fixes.raised
              THEN /\ exc' = "OSError"
                   /\ exitCode' = UncaughtExit
                   /\ pc' = "done"
              ELSE /\ pc' = "walk"
                   /\ UNCHANGED <<exitCode, exc>>
    /\ UNCHANGED <<args, exclude, tests, gen>>

(***************************************************************************)
(* fs_lint: after the loop over the walker, the statistics and the exit.   *)
(***************************************************************************)
\* count_failed()
CountFailed(cnt, rule) == Len(cnt[rule].failed)

\* the statistics line of one rule: name, failed count and the count of the
\* paths that passed for a rule that has failures, name and total otherwise
StatLine(cnt, rule) ==
    IF CountFailed(cnt, rule) > 0
    THEN Line("STAT", <<>>, <<rule, CountFailed(cnt, rule),
                              cnt[rule].total - CountFailed(cnt, rule)>>)
    ELSE Line("STAT", <<>>, <<rule, cnt[rule].total>>)

StatisticsLines(cnt, ts) ==
    <<Line("STATHEAD", <<>>, "Statistics")>> \o [i \in 1..Len(ts) |-> StatLine(cnt, ts[i])]

\* exit code 1 as soon as a rule was called at all
FinalExitTotal(cnt, ts) ==
    IF \E i \in 1..Len(ts) : cnt[ts[i]].total > 0 THEN 1 ELSE 0

\* sys.exit(1) if any(test.count_failed() > 0 ...), else the command returns
FinalExit(cnt, ts) ==
    IF \E i \in 1..Len(ts) : CountFailed(cnt, ts[i]) > 0 THEN 1 ELSE 0

Finish ==
    /\ pc = "finish"
    /\ output' = IF args.statistics THEN output \o StatisticsLines(counters, tests)
                 ELSE output
    /\ exitCode' = FinalExit(counters, tests)
    /\ pc' = "done"
    /\ trace' = Append(trace, Ev("exit", 0, <<>>, NoStat, "", <<>>, FALSE))
    /\ UNCHANGED <<args, fs, exclude, tests, counters, gen, exc>>

(***************************************************************************)
(* The runs checked: one filesystem, and every command line of at most     *)
(* MaxRoots root arguments and at most MaxOptions options.                 *)
(***************************************************************************)
\* 0o<u><g><o> as permission bits
Octal(u, g, o) == 64 * u + 8 * g + o

Entry(kind, perm, uid, ino) ==
    [kind |-> kind, perm |-> perm, uid |-> uid, gid |-> MyGid, size |-> 1, ino |-> ino,
     target |-> <<>>, lines |-> <<>>]

TextFile(ino, lines) ==
    [Entry("reg", Octal(6, 0, 0), MyUid, ino) EXCEPT !.lines = lines]

\* r/              a directory
\*   .gitignore      ignores ig, re-includes .g*
\*   ig/             .gitignore (re-includes everything), " b  c " (a name
\*                   with a space at its start, a space at its end and a
\*                   double space)
\*   "sub "/         (space at end, world readable) ok
\*   " -a"           (space at start, a dangerous name, world writable and
\*                   readable)
\* p               a fifo
InitialFs ==
       (<<<<"r">>>> :> Entry("dir", Octal(7, 0, 0), MyUid, 1))
    @@ (<<<<"r">>, GitIgnoreName>> :> TextFile(2, <<<<"i", "g">>, <<"!", ".", "g", "*">>>>))
    @@ (<<<<"r">>, <<"i", "g">>>> :> Entry("dir", Octal(7, 0, 0), MyUid, 3))
    @@ (<<<<"r">>, <<"i", "g">>, GitIgnoreName>> :> TextFile(4, <<<<"!", "*">>>>))
    @@ (<<<<"r">>, <<"i", "g">>, <<" ", "b", " ", " ", "c", " ">>>> :>
            Entry("reg", Octal(6, 0, 0), MyUid, 5))
    @@ (<<<<"r">>, <<"s", "u", "b", " ">>>> :> Entry("dir", Octal(7, 5, 5), MyUid, 6))
    @@ (<<<<"r">>, <<"s", "u", "b", " ">>, <<"o", "k">>>> :>
            Entry("reg", Octal(6, 0, 0), MyUid, 7))
    @@ (<<<<"r">>, <<" ", "-", "a">>>> :> Entry("reg", Octal(6, 4, 6), MyUid, 8))
    @@ (<<<<"p">>>> :> Entry("fifo", Octal(6, 0, 0), MyUid, 9))

\* the root arguments a command line is made of: a directory, a file, a
\* fifo, and a path that does not exist
RootChoices ==
    {<<<<"r">>>>,
     <<<<"r">>, <<" ", "-", "a">>>>,
     <<<<"p">>>>,
     <<<<"x">>>>}

RECURSIVE SeqsUpTo(_, _)
\* the sequences over S of length at most n
SeqsUpTo(S, n) ==
    IF n = 0 THEN {<<>>}
    ELSE SeqsUpTo(S, n - 1) \cup
         {Append(q, x) : q \in {t \in SeqsUpTo(S, n - 1) : Len(t) = n - 1}, x \in S}

\* the options of the command, and the global git excludes file (which is
\* there or not)
OptionNames ==
    {"list_tests", "verbose", "fix", "experimental", "statistics", "hidden",
     "skip_vcs_ignore", "limit", "skip_test", "exclude", "gitexcludes"}

\* the values of --limit and of --skip-test: a rule, two rules, no rule's name
NameListChoices ==
    {<<"name-spaceatend">>,
     <<"name-spaceatstart", "permissions-world-writable">>,
     <<"nosuch-rule">>}

\* the value of --exclude
ExcludeChoice == <<<<"s", "*">>, <<"i", "g", "/">>>>

\* the lines of the global git excludes file
GitExcludesChoice == <<<<"i", "g">>>>

\* the command line with the options of `on' given
Args(paths, on, limit, skip_test) ==
    [paths           |-> paths,
     list_tests      |-> "list_tests" \in on,
     verbose         |-> "verbose" \in on,
     fix             |-> "fix" \in on,
     experimental    |-> "experimental" \in on,
     statistics      |-> "statistics" \in on,
     hidden          |-> "hidden" \in on,
     skip_vcs_ignore |-> "skip_vcs_ignore" \in on,
     limit           |-> limit,
     skip_test       |-> skip_test,
     exclude         |-> IF "exclude" \in on THEN ExcludeChoice ELSE <<>>,
     gitexcludes     |-> IF "gitexcludes" \in on THEN GitExcludesChoice ELSE <<>>]

Init ==
    /\ \E on \in {o \in SUBSET OptionNames : Cardinality(o) <= MaxOptions} :
          \E paths \in SeqsUpTo(RootChoices, MaxRoots),
             limit \in (IF "limit" \in on THEN NameListChoices ELSE {<<>>}),
             skip_test \in (IF "skip_test" \in on THEN NameListChoices ELSE {<<>>}) :
             args = Args(paths, on, limit, skip_test)
    /\ fs = InitialFs
    /\ pc = "parse"
    /\ exclude = <<>>
    /\ tests = <<>>
    /\ counters = [rule \in RuleNames |-> [failed |-> <<>>, ok |-> <<>>, total |-> 0]]
    /\ gen = GenInit
    /\ output = <<>>
    /\ exitCode = -1
    /\ exc = ""
    /\ trace = <<>>

Next ==
    \/ ClickReject
    \/ ClickAccept
    \/ ListTests
    \/ Usage
    \/ Configure
    \/ WalkRoot
    \/ WalkScan
    \/ WalkDirs
    \/ WalkFiles
    \/ Lint
    \/ Finish

Spec == Init /\ [][Next]_vars

(***************************************************************************)
(* One rule on one entry, as the unit tests of the rules do it: the rule   *)
(* is called on the entry with its lstat, the fix of the rule (if it has   *)
(* one) is called with a fresh lstat, and the rule is called again on the  *)
(* entry where it then is.  The entry is alone in its directory.           *)
(***************************************************************************)
\* the longest name tried
MaxNameLen == 4

\* the characters of the names tried
UnitAlphabet == {" ", "a", "\n"}

\* the names tried: every name of 1..MaxNameLen characters
UnitNames == SeqsUpTo(UnitAlphabet, MaxNameLen) \ {<<>>}

\* the permission bits tried: every stat.S_IMODE value
UnitModes == 0..4095

UnitPermissionRules ==
    {"permissions-orphan-executable-bit", "permissions-world-writable",
     "permissions-world-readable", "permissions-world-readable-dir"}

UnitNameRules ==
    {"name-spaceatstart", "name-spaceatend", "name-spacedouble", "name-controlchars"}

\* tmp_path
UnitDir == <<<<"u">>>>

\* the inode of the entry under test
UnitIno == 2

\* tmp_path with the entry in it
UnitFs(kind, name, mode) ==
       (UnitDir :> Entry("dir", Octal(7, 0, 0), MyUid, 1))
    @@ (Append(UnitDir, name) :> Entry(kind, mode, MyUid, UnitIno))

\* the inode of a second entry of tmp_path
SiblingIno == 3

\* tmp_path with the entry and a second entry in it
UnitFsSibling(kind, name, mode, siblingKind, siblingName) ==
       UnitFs(kind, name, mode)
    @@ (Append(UnitDir, siblingName) :> Entry(siblingKind, mode, MyUid, SiblingIno))

\* the rules whose fix renames the entry
RenameRules == UnitNameRules \cup {"name-uppercase-extension"}

\* the names of the entry: those of UnitNames, and a.T
RenameNames == UnitNames \cup {<<"a", ".", "T">>}

\* the names of the second entry: those of one or two characters, and a.t
SiblingNames == {n \in UnitNames : Len(n) <= 2} \cup {<<"a", ".", "t">>}

\* where the entry under test is
UnitPath(f) == CHOOSE q \in DOMAIN f : f[q].ino = UnitIno

\* the names size-zero is tried on: data.lock, report.txt, __init__.py, LOCK,
\* lock, a.LOCK, a.log, a.db-wal, a.sqlitedb-wal, a.sqlite-wal, a.log.txt,
\* a.logs, a.wal, a
SizeZeroNames ==
    {<<"d", "a", "t", "a", ".", "l", "o", "c", "k">>,
     <<"r", "e", "p", "o", "r", "t", ".", "t", "x", "t">>,
     <<"_", "_", "i", "n", "i", "t", "_", "_", ".", "p", "y">>,
     <<"L", "O", "C", "K">>,
     <<"l", "o", "c", "k">>,
     <<"a", ".", "L", "O", "C", "K">>,
     <<"a", ".", "l", "o", "g">>,
     <<"a", ".", "d", "b", "-", "w", "a", "l">>,
     <<"a", ".", "s", "q", "l", "i", "t", "e", "d", "b", "-", "w", "a", "l">>,
     <<"a", ".", "s", "q", "l", "i", "t", "e", "-", "w", "a", "l">>,
     <<"a", ".", "l", "o", "g", ".", "t", "x", "t">>,
     <<"a", ".", "l", "o", "g", "s">>,
     <<"a", ".", "w", "a", "l">>,
     <<"a">>}

UnitExperimentalRules == {"name-dangerous", "name-len32", "name-non-ascii"}

\* a name of 34 characters: thirty times a, and .txt
LongName == [i \in 1..30 |-> "a"] \o <<".", "t", "x", "t">>

\* the names the experimental fixes are tried on
ExperimentalNames ==
    {<<" ", "-", "a">>,
     <<"-", "x">>,
     <<"a", " ", "-", "b", ".", "t", "x", "t">>,
     <<"U+00E9", ".", "a">>,
     <<"a", "U+2044", "b">>,
     LongName,
     <<"a">>,
     <<" ">>}

UnitInit ==
    /\ \/ \E rule \in UnitPermissionRules \cup UnitNameRules :
             \E kind \in {"reg", "dir"},
                name \in (IF rule \in UnitNameRules THEN UnitNames ELSE {<<"a">>}),
                mode \in (IF rule \in UnitPermissionRules THEN UnitModes
                          ELSE {Octal(6, 0, 0)}) :
                /\ tests = <<rule>>
                /\ fs = UnitFs(kind, name, mode)
                /\ gen = [GenInit EXCEPT !.cur = Append(UnitDir, name)]
       \/ \E rule \in UnitExperimentalRules, kind \in {"reg", "dir"},
             name \in ExperimentalNames :
             /\ tests = <<rule>>
             /\ fs = UnitFs(kind, name, Octal(6, 0, 0))
             /\ gen = [GenInit EXCEPT !.cur = Append(UnitDir, name)]
       \/ \E kind \in {"reg", "dir", "sock"}, name \in SizeZeroNames, size \in {0, 1} :
             /\ tests = <<"size-zero">>
             /\ fs = [UnitFs(kind, name, Octal(6, 0, 0))
                         EXCEPT ![Append(UnitDir, name)].size = size]
             /\ gen = [GenInit EXCEPT !.cur = Append(UnitDir, name)]
    /\ args = Args(<<>>, {}, <<>>, <<>>)
    /\ pc = "unit"
    /\ exclude = <<>>
    /\ counters = [rule \in RuleNames |-> [failed |-> <<>>, ok |-> <<>>, total |-> 0]]
    /\ output = <<>>
    /\ exitCode = -1
    /\ exc = ""
    /\ trace = <<>>

\* test(test_path, test_path.lstat())
UnitTest ==
    /\ pc = "unit"
    /\ LET rule   == tests[1]
           path   == gen.cur
           st     == Lstat(fs, path)
           passed == RuleTest(rule, path, st, fs)
       IN  /\ counters' = CallRule(counters, rule, path, passed)
           /\ trace' = trace \o
                 <<Ev("test", 0, path, st, rule, tests, FALSE),
                   Ev("report", 0, path, st, rule,
                      IF passed THEN <<>> ELSE tests, FALSE)>>
           /\ pc' = IF HasFix(rule) THEN "unitfix"
                    ELSE IF HasExperimentalFix(rule) THEN "unitexp"
                    ELSE "unitdone"
    /\ UNCHANGED <<args, fs, exclude, tests, gen, output, exitCode, exc>>

\* test.fix(test_path, test_path.lstat())
UnitFix ==
    /\ pc = "unitfix"
    /\ LET rule == tests[1]
           path == gen.cur
           st   == Lstat(fs, path)
           res  == RuleFix(rule, path, st, fs)
       IN  /\ fs' = res.fs
           /\ output' = output \o res.echo
           /\ trace' = Append(trace, Ev("fix", 0, path, st, rule, <<>>, res.raised))
           /\ exc' = IF res.raised THEN "Error" ELSE exc
           /\ pc' = IF res.raised THEN "unitdone" ELSE "unitretest"
           /\ gen' = [gen EXCEPT !.cur = IF res.raised THEN path ELSE UnitPath(res.fs)]
    /\ UNCHANGED <<args, exclude, tests, counters, exitCode>>

\* test.experimentalfix(test_path, test_path.lstat())
UnitExperimentalFix ==
    /\ pc = "unitexp"
    /\ LET rule == tests[1]
           path == gen.cur
           st   == Lstat(fs, path)
           res  == RuleExperimentalFix(rule, path, st, fs)
       IN  /\ fs' = res.fs
           /\ output' = output \o res.echo
           /\ trace' = Append(trace, Ev("experimentalfix", 0, path, st, rule, <<>>,
                                        res.raised))
           /\ exc' = IF res.raised THEN "Error" ELSE exc
           /\ pc' = "unitdone"
    /\ UNCHANGED <<args, exclude, tests, counters, gen, exitCode>>

\* test(fixed_path, fixed_path.lstat())
UnitRetest ==
    /\ pc = "unitretest"
    /\ LET rule   == tests[1]
           path   == gen.cur
           st     == Lstat(fs, path)
           passed == RuleTest(rule, path, st, fs)
       IN  /\ counters' = CallRule(counters, rule, path, passed)
           /\ trace' = trace \o
                 <<Ev("test", 0, path, st, rule, tests, FALSE),
                   Ev("report", 0, path, st, rule,
                      IF passed THEN <<>> ELSE tests, FALSE)>>
           /\ pc' = "unitdone"
    /\ UNCHANGED <<args, fs, exclude, tests, gen, output, exitCode, exc>>

UnitNext ==
    \/ UnitTest
    \/ UnitFix
    \/ UnitExperimentalFix
    \/ UnitRetest

UnitSpec == UnitInit /\ [][UnitNext]_vars

(***************************************************************************)
(* A rename rule on an entry that has a second entry beside it: the rule,  *)
(* its fix, the rule again.                                                *)
(***************************************************************************)
SiblingInit ==
    /\ \E rule \in RenameRules, kind \in {"reg", "dir"}, name \in RenameNames,
          siblingKind \in {"reg", "dir"}, siblingName \in SiblingNames :
          /\ siblingName # name
          /\ tests = <<rule>>
          /\ fs = UnitFsSibling(kind, name, Octal(6, 0, 0), siblingKind, siblingName)
          /\ gen = [GenInit EXCEPT !.cur = Append(UnitDir, name)]
    /\ args = Args(<<>>, {}, <<>>, <<>>)
    /\ pc = "unit"
    /\ exclude = <<>>
    /\ counters = [rule \in RuleNames |-> [failed |-> <<>>, ok |-> <<>>, total |-> 0]]
    /\ output = <<>>
    /\ exitCode = -1
    /\ exc = ""
    /\ trace = <<>>

SiblingNext ==
    \/ UnitTest
    \/ UnitFix
    \/ UnitRetest

SiblingSpec == SiblingInit /\ [][SiblingNext]_vars

(***************************************************************************)
(* Properties of a run, read off its history and its output.               *)
(***************************************************************************)
\* the positions of the history at which `ev' was done
At(ev) == {i \in 1..Len(trace) : trace[i].ev = ev}

\* the evaluations of a path that found a failure, in order
FailReports == SelectSeq(trace, LAMBDA e : e.ev = "report" /\ e.rules # <<>>)

\* the FAIL lines printed, in order
FailLines == SelectSeq(output, LAMBDA l : l.tag = "FAIL")

\* a root argument that is a file or a directory when the command starts
RootValid(p) == IsDir(InitialFs, p) \/ IsFile(InitialFs, p)

\* paths are given and --list-tests is not
ScanRun == ~args.list_tests /\ args.paths # <<>>

\* a rule was called on a path
SomeRuleCalled == \E i \in At("test") : trace[i].rules # <<>>

\* the names between the commas of a tag
TagNames(tag) == [i \in 1..((Len(tag) + 1) \div 2) |-> tag[2 * i - 1]]

\* tag is the names of `failed', each once, in increasing order, joined by commas
IsSortedTagOf(tag, failed) ==
    /\ Len(tag) = 2 * Cardinality(failed) - 1
    /\ \A i \in 1..Len(tag) : (i % 2 = 0) => tag[i] = ","
    /\ {TagNames(tag)[i] : i \in DOMAIN TagNames(tag)} = failed
    /\ \A i, j \in DOMAIN TagNames(tag) :
          i < j => NameLess(TagNames(tag)[i], TagNames(tag)[j])

\* C1: a scan run whose root arguments are all files or directories ends with
\* exit code 1 if some rule recorded a failure on a walked path, and with exit
\* code 0 if none did
C1_ExitCode ==
    (pc = "done" /\ ScanRun /\ \A i \in 1..Len(args.paths) : RootValid(args.paths[i]))
        => /\ exitCode \in {0, 1}
           /\ (exitCode = 1) <=> (FailReports # <<>>)

\* a run that called rules on paths, found no failure and ended with 0
C1_Witness ==
    /\ pc = "done"
    /\ ScanRun
    /\ \A i \in 1..Len(args.paths) : RootValid(args.paths[i])
    /\ SomeRuleCalled
    /\ exitCode = 0

\* C2 (as amended): every evaluation of a path that finds a failure prints one
\* FAIL line for that path, tagged with the sorted, comma-joined names of
\* exactly the rules that failed in that evaluation; there are no other FAIL
\* lines; a run with such an evaluation ends with exit code 1
C2_FailLinePerEvaluation ==
    /\ Len(FailLines) = Len(FailReports)
    /\ \A k \in 1..Len(FailLines) :
          /\ FailLines[k].path = FailReports[k].path
          /\ IsSortedTagOf(FailLines[k].text, Range(FailReports[k].rules))
    /\ (pc = "done" /\ FailReports # <<>>) => exitCode = 1

\* a finished run that printed two FAIL lines for one path
C2_Witness ==
    /\ pc = "done"
    /\ exitCode = 1
    /\ \E j, k \in 1..Len(FailLines) : j < k /\ FailLines[j].path = FailLines[k].path

\* C2 as stated: a path with a failing rule appears exactly once in the whole
\* output of the run, on a FAIL line tagged with the sorted names of the rules
\* that failed on it, and the exit code is 1
C2_OncePerPath ==
    (pc = "done" /\ exc = "")
        => \A i \in 1..Len(FailReports) :
              /\ exitCode = 1
              /\ Cardinality({k \in 1..Len(output) :
                                output[k].path = FailReports[i].path}) = 1
              /\ \A k \in 1..Len(output) :
                    output[k].path = FailReports[i].path
                        => /\ output[k].tag = "FAIL"
                           /\ IsSortedTagOf(output[k].text, Range(FailReports[i].rules))

\* the evaluation a step of the history belongs to: the last report before it
LastReport(j) == CHOOSE i \in At("report") : i < j /\ \A k \in At("report") : k < j => k <= i

\* the fix steps of the history
FixSteps == At("fix") \cup At("experimentalfix")

\* C3: a fix is invoked only with --fix and only for a rule that failed on the
\* current path, with the path and the snapshot of the evaluation; an
\* experimental fix only with --experimental and for a rule without a safe
\* fix; and with --fix every failed rule that has a safe fix gets it invoked
C3_FixDispatch ==
    /\ \A j \in FixSteps :
          /\ args.fix
          /\ \E i \in At("report") : i < j
          /\ trace[j].rule \in Range(trace[LastReport(j)].rules)
          /\ trace[j].path = trace[LastReport(j)].path
          /\ trace[j].st = trace[LastReport(j)].st
    /\ \A j \in At("experimentalfix") :
          args.experimental /\ ~HasFix(trace[j].rule)
    /\ \A i \in At("report") :
          args.fix => \A r \in Range(trace[i].rules) :
                         HasFix(r) => \E j \in At("fix") :
                                         /\ j > i
                                         /\ LastReport(j) = i
                                         /\ trace[j].rule = r

\* C4: a fix that raises does not end the run: the command goes on to the
\* statistics and the exit code
C4_FixErrorContained ==
    (pc = "done" /\ \E j \in FixSteps : trace[j].raised)
        => /\ exc = ""
           /\ At("exhausted") # {}

\* C5: after the configuration the registered rules are those named by --limit
\* if --limit is given (whatever --skip-test names), those not named by
\* --skip-test otherwise, and each is registered once
C5_RuleSelection ==
    At("configure") # {}
        => /\ \A rule \in RuleNames :
                 (rule \in Range(tests)) <=>
                     (IF args.limit # <<>> THEN rule \in Range(args.limit)
                      ELSE rule \notin Range(args.skip_test))
           /\ Range(tests) \subseteq RuleNames
           /\ \A i, j \in 1..Len(tests) : tests[i] = tests[j] => i = j
           /\ \A i \in At("test") : trace[i].rules = tests

\* a rule named by --limit and by --skip-test was called on a path
C5_Witness ==
    \E rule \in Range(args.limit) \cap Range(args.skip_test) :
        \E i \in At("test") : rule \in Range(trace[i].rules)

\* a name that is a value of --limit or of --skip-test and of no rule
UnknownRuleNamed == (Range(args.limit) \cup Range(args.skip_test)) \ RuleNames # {}

\* C6: a value of --limit or --skip-test that names no rule is fatal: no rule
\* is called on any path and the exit code is not zero
C6_UnknownRuleFatal ==
    (ScanRun /\ UnknownRuleNamed)
        => /\ ~SomeRuleCalled
           /\ pc = "done" => exitCode # 0

\* C7: when one root argument is neither a file nor a directory no rule is
\* called on any path, and the run ends with an error
C7_InvalidRootFirst ==
    (ScanRun /\ \E i \in 1..Len(args.paths) : ~RootValid(args.paths[i]))
        => /\ ~SomeRuleCalled
           /\ pc = "done" => exitCode # 0

\* the steps of the history that walk, evaluate or fix
WalkSteps ==
    At("scandir") \cup At("read") \cup At("yield") \cup At("lstat") \cup At("test")
        \cup FixSteps

\* the output is one line per registered rule, its name and its description
ListsEveryRule ==
    /\ Len(output) = Cardinality(RuleNames)
    /\ \A rule \in RuleNames :
          \E k \in 1..Len(output) :
              output[k].tag = "LIST" /\ output[k].text = <<rule, RuleDoc(rule)>>

\* C8 (as amended): with --list-tests nothing is walked, evaluated or fixed,
\* and, provided every given path argument exists, the command prints the
\* name and the description of every registered rule and exits 0, whatever
\* the other options
C8_ListTests ==
    args.list_tests
        => /\ WalkSteps = {}
           /\ (pc = "done" /\ ClickPathsExist(InitialFs, args.paths))
                 => (exitCode = 0 /\ ListsEveryRule)

\* --list-tests with --fix and a path: the list is printed, the exit code is 0
C8_Witness ==
    /\ pc = "done"
    /\ args.list_tests
    /\ args.fix
    /\ args.paths # <<>>
    /\ exitCode = 0
    /\ ListsEveryRule

\* C8 as stated: with --list-tests the command prints the list and exits 0
\* whatever paths are given
C8_AnyPaths ==
    (pc = "done" /\ args.list_tests)
        => (exitCode = 0 /\ ListsEveryRule /\ WalkSteps = {})

\* C9: without a path and without --list-tests the command prints the usage
\* text and exits with code 1, and no rule is evaluated
C9_NoPathsUsage ==
    (args.paths = <<>> /\ ~args.list_tests)
        => /\ WalkSteps = {}
           /\ pc = "done"
                 => /\ exitCode = 1
                    /\ Len(output) = 1
                    /\ output[1].tag = "USAGE"

\* the command was run with options but without a path, and has ended
C9_Witness ==
    /\ pc = "done"
    /\ args.paths = <<>>
    /\ ~args.list_tests
    /\ args.fix
    /\ output # <<>>

\* step i of the history lists a subdirectory that the local spec of its
\* directory matches
Pruned(i) ==
    /\ trace[i].ev = "entry"
    /\ trace[i].rule = "dir"
    /\ MatchFile(trace[i].rules, Last(trace[i].path))

\* C10: a subdirectory matched by the local spec of its directory is not
\* yielded, nothing beneath it is yielded, it is never listed and no
\* .gitignore in it is read, in the rest of the walk of that root argument
C10_Pruning ==
    \A i \in At("entry") :
        Pruned(i) =>
            \A j \in 1..Len(trace) :
                (/\ j > i
                 /\ trace[j].root = trace[i].root
                 /\ trace[j].ev \in {"yield", "scandir", "read", "entry", "lstat"})
                    => ~IsPrefix(trace[i].path, trace[j].path)

\* a walk that went to its end after it pruned a directory holding a .gitignore
C10_Witness ==
    /\ pc = "done"
    /\ exc = ""
    /\ \E i \in At("entry") :
          Pruned(i) /\ Append(trace[i].path, GitIgnoreName) \in DOMAIN fs

\* the lines of the .gitignore of the directory that holds path p, as they
\* are when the command starts (none when there is no such file)
OwnIgnoreLines(p) == ReadLines(InitialFs, Append(Front(p), GitIgnoreName))

\* some pattern of the list matches the name, whatever it decides
AnyPatternMatches(patterns, name) ==
    \E k \in 1..Len(patterns) :
        PatternInclude(patterns[k]) # "none" /\ PatternMatchesName(patterns[k], name)

\* the .gitignore of the directory of p excludes p, and no pattern of the
\* global tuple `exclude' matches it
ExcludedLocallyOnly(p) ==
    /\ MatchFile(OwnIgnoreLines(p), Last(p))
    /\ ~AnyPatternMatches(exclude, Last(p))

\* C11: an entry that the .gitignore of its own directory excludes and that
\* no global pattern matches is not yielded by the walk of that directory
\* unless --skip-vcs-ignores is given; with --skip-vcs-ignores a walk that
\* goes to its end yields it
C11_IgnorePrecedence ==
    \A i \in At("entry") :
        ExcludedLocallyOnly(trace[i].path) =>
            IF args.skip_vcs_ignore
            THEN (pc = "done" /\ exc = "")
                    => \E j \in At("yield") :
                          /\ j > i
                          /\ trace[j].root = trace[i].root
                          /\ trace[j].path = trace[i].path
            ELSE \A j \in At("yield") : trace[j].path # trace[i].path

\* a walk without --skip-vcs-ignores went to its end after it listed an entry
\* that only the .gitignore of its directory excludes
C11_Witness ==
    /\ pc = "done"
    /\ exc = ""
    /\ ~args.skip_vcs_ignore
    /\ \E i \in At("entry") : ExcludedLocallyOnly(trace[i].path)

\* a walk with --skip-vcs-ignores yielded an entry that the .gitignore of its
\* directory excludes
SkippedIgnoreYields ==
    /\ pc = "done"
    /\ args.skip_vcs_ignore
    /\ \E i \in At("entry"), j \in At("yield") :
          ExcludedLocallyOnly(trace[i].path) /\ trace[j].path = trace[i].path

\* directory d holds a .gitignore when the command starts
HasGitIgnore(d) ==
    /\ Append(d, GitIgnoreName) \in DOMAIN InitialFs
    /\ InitialFs[Append(d, GitIgnoreName)].kind = "reg"

\* the global patterns followed by the lines of d/.gitignore when VCS ignores
\* are consumed and d holds a .gitignore, the global patterns otherwise
OverlayOf(d) ==
    IF ~args.skip_vcs_ignore /\ HasGitIgnore(d)
    THEN exclude \o InitialFs[Append(d, GitIgnoreName)].lines
    ELSE exclude

\* the yields of a directory traversal (a root argument that is a file is
\* yielded as it is)
TraversalYields == {j \in At("yield") : trace[j].path # args.paths[trace[j].root]}

\* C12: the spec that filters the entries of a visited directory D is the
\* global patterns followed by the lines of D/.gitignore when VCS ignores are
\* consumed and D holds a .gitignore, and the global patterns otherwise; so
\* the lines of a .gitignore filter the entries of no other directory, and no
\* entry that this spec matches is yielded
C12_LocalOverlay ==
    /\ gen.phase \in {"dirs", "files"} => gen.spec = OverlayOf(gen.top)
    /\ \A i \in At("entry") : trace[i].rules = OverlayOf(Front(trace[i].path))
    /\ \A j \in TraversalYields :
          ~MatchFile(OverlayOf(Front(trace[j].path)), Last(trace[j].path))

\* the walk read the .gitignore of a directory and now filters the entries of
\* a subdirectory of it, which holds no .gitignore, with the global patterns
C12_Witness ==
    /\ gen.phase = "files"
    /\ Len(gen.top) > 1
    /\ ~HasGitIgnore(gen.top)
    /\ gen.spec = exclude
    /\ \E i \in At("read") : trace[i].path = Append(Front(gen.top), GitIgnoreName)
    /\ \E i \in At("entry") :
          Front(trace[i].path) = Front(gen.top) /\ trace[i].rules # exclude

\* the pattern '.*'
DotStar == <<".", "*">>

\* the name of the entry begins with a dot
IsDotEntry(p) == Head(Last(p)) = "."

\* a negation pattern behind the first pattern of the list matches the name
ReIncluded(patterns, name) ==
    \E k \in 2..Len(patterns) :
        PatternInclude(patterns[k]) = "exclude" /\ PatternMatchesName(patterns[k], name)

DotEntryNotYielded ==
    /\ pc = "done"
    /\ exc = ""
    /\ ~args.hidden
    /\ \E i \in At("entry") :
          /\ IsDotEntry(trace[i].path)
          /\ \A j \in At("yield") : trace[j].path # trace[i].path

\* a walk with --hidden went to its end and yielded a dot entry that no
\* pattern matches
HiddenYieldsDotEntry ==
    /\ pc = "done"
    /\ exc = ""
    /\ args.hidden
    /\ \E i \in At("entry"), j \in TraversalYields :
          /\ IsDotEntry(trace[i].path)
          /\ ~AnyPatternMatches(trace[i].rules, Last(trace[i].path))
          /\ trace[j].path = trace[i].path

\* the characters of the names of the filesystem, in the order of their code
\* points
CharOrder ==
    <<" ", "!", "*", "-", ".", "0", "1", "A", "B", "a", "b", "c", "e", "g", "i", "k",
      "n", "o", "r", "s", "t", "u", "x">>

\* the place of a character in that order
CharRank(c) == CHOOSE k \in 1..Len(CharOrder) : CharOrder[k] = c

RECURSIVE NameBefore(_, _)
\* a < b for two names, as Python compares str
NameBefore(a, b) ==
    IF b = <<>> THEN FALSE
    ELSE IF a = <<>> THEN TRUE
    ELSE IF Head(a) = Head(b) THEN NameBefore(Tail(a), Tail(b))
    ELSE CharRank(Head(a)) < CharRank(Head(b))

\* the yields of entries that the walk listed as subdirectories (kind "dir")
\* or as other entries (kind "file")
YieldsOfKind(kind) ==
    {j \in TraversalYields :
        \E i \in At("entry") :
            /\ i < j
            /\ trace[i].root = trace[j].root
            /\ trace[i].path = trace[j].path
            /\ trace[i].rule = kind}

\* C14: of two file entries of one directory that a walk yields, the one with
\* the smaller name is yielded first; and the subdirectories of a directory
\* that a walk yields are yielded before its file entries
C14_SortedFiles ==
    /\ \A j, k \in YieldsOfKind("file") :
          (/\ j < k
           /\ trace[j].root = trace[k].root
           /\ Front(trace[j].path) = Front(trace[k].path))
              => NameBefore(Last(trace[j].path), Last(trace[k].path))
    /\ \A j \in YieldsOfKind("dir"), k \in YieldsOfKind("file") :
          (/\ trace[j].root = trace[k].root
           /\ Front(trace[j].path) = Front(trace[k].path))
              => j < k

\* the second half of C14 alone: subdirectories before file entries
DirsBeforeFiles ==
    \A j \in YieldsOfKind("dir"), k \in YieldsOfKind("file") :
        (/\ trace[j].root = trace[k].root
         /\ Front(trace[j].path) = Front(trace[k].path))
            => j < k

\* the steps of the history at which the rule was called on a path
Invocations(rule) == {i \in At("test") : rule \in Range(trace[i].rules)}

\* the calls of the rule that returned False: the report that follows the
\* call names the rule
ReturnedFalse(rule) == {i \in Invocations(rule) : rule \in Range(trace[i + 1].rules)}

\* C15: for every rule, total is the number of its calls, every call put its
\* path in exactly one of failed and ok (so total = len(failed) + len(ok)),
\* failed holds the paths of the calls that returned False and ok those of
\* the others, and count_failed() is the number of calls that returned False
C15_Counters ==
    \A rule \in RuleNames :
        /\ counters[rule].total = Cardinality(Invocations(rule))
        /\ counters[rule].total = Len(counters[rule].failed) + Len(counters[rule].ok)
        /\ CountFailed(counters, rule) = Cardinality(ReturnedFalse(rule))
        /\ Range(counters[rule].failed) = {trace[i].path : i \in ReturnedFalse(rule)}
        /\ Range(counters[rule].ok) =
              {trace[i].path : i \in Invocations(rule) \ ReturnedFalse(rule)}

\* a rule was called on several paths, failed on some and passed on others
C15_Witness ==
    \E rule \in RuleNames :
        /\ counters[rule].total >= 3
        /\ counters[rule].failed # <<>>
        /\ counters[rule].ok # <<>>

\* the statistics lines printed, in order
StatLines == SelectSeq(output, LAMBDA l : l.tag = "STAT")

\* one statistics line for each registered rule, in the order of registration
OneStatLinePerRule ==
    /\ Len(StatLines) = Len(tests)
    /\ \A k \in 1..Len(StatLines) : StatLines[k].text[1] = tests[k]

\* C16: with --statistics a run whose traversal went to its end prints one
\* statistics line for each registered rule, and the line of a rule shows
\* its failed count and its total (only its total when nothing failed)
C16_StatisticsTotals ==
    (pc = "done" /\ args.statistics /\ At("exhausted") # {})
        => /\ OneStatLinePerRule
           /\ \A k \in 1..Len(StatLines) :
                 StatLines[k].text =
                     IF CountFailed(counters, tests[k]) > 0
                     THEN <<tests[k], CountFailed(counters, tests[k]),
                            counters[tests[k]].total>>
                     ELSE <<tests[k], counters[tests[k]].total>>

\* the part of C16 that holds: one line per registered rule
C16_OneLinePerRule ==
    (pc = "done" /\ args.statistics /\ At("exhausted") # {}) => OneStatLinePerRule

\* the calls of the rule in the history
CallsOf(rule) == {i \in At("test") : trace[i].rule = rule}

\* the call at step i of the history returned False
Failed(i) == trace[i + 1].rules # <<>>

\* the octal digit of a class in the permission bits: unit 64 for the user, 8
\* for the group, 1 for the others
ClassDigit(perm, unit) == (perm \div unit) % 8

\* some class has the execute bit (1) without the read bit (4)
OrphanExecute(perm) ==
    \E unit \in {64, 8, 1} :
        ClassDigit(perm, unit) % 2 = 1 /\ ClassDigit(perm, unit) \div 4 = 0

\* the snapshot of an entry with the given permission bits
StatOf(perm) == [NoStat EXCEPT !.kind = "reg", !.perm = perm]

\* C17: permissions-orphan-executable-bit, called on an entry of whatever
\* mode, fails exactly when for the user, the group or the others the
\* execute bit is set and the read bit is clear; so 0o661, 0o616 and 0o166
\* fail and 0o766, 0o665 and 0o644 pass
C17_OrphanExecutable ==
    /\ \A i \in CallsOf("permissions-orphan-executable-bit") :
          Failed(i) <=> OrphanExecute(trace[i].st.perm)
    /\ \A perm \in {Octal(6, 6, 1), Octal(6, 1, 6), Octal(1, 6, 6)} :
          ~TestPermissionsOrphanExecutableBit(<<>>, StatOf(perm), fs)
    /\ \A perm \in {Octal(7, 6, 6), Octal(6, 6, 5), Octal(6, 4, 4)} :
          TestPermissionsOrphanExecutableBit(<<>>, StatOf(perm), fs)

\* the rule was called on an entry of mode 0o616 and failed
C17_Witness ==
    /\ pc = "unitdone"
    /\ \E i \in CallsOf("permissions-orphan-executable-bit") :
          trace[i].st.perm = Octal(6, 1, 6) /\ Failed(i)
    /\ CountFailed(counters, "permissions-orphan-executable-bit") = 1

\* the twelve permission bits of stat.S_IMODE
PermBits == {1, 2, 4, 8, 16, 32, 64, 128, 256, 512, 1024, 2048}

\* the bits a permission rule objects to: write for the others (2), read and
\* execute for the others (4 and 1)
Offending(rule) == IF rule = "permissions-world-writable" THEN {2} ELSE {4, 1}

\* C18: when permissions-world-writable, permissions-world-readable or
\* permissions-world-readable-dir fails on an entry that is no symbolic link
\* and its fix is called with a fresh snapshot, the fix does not raise, the
\* entry stays where it is, its permission bits become those of the snapshot
\* without the bits the rule objects to, every other bit as it was, and the
\* rule then passes on the entry with fresh metadata
C18_PermissionFixes ==
    \A rule \in {"permissions-world-writable", "permissions-world-readable",
                 "permissions-world-readable-dir"} :
        (tests = <<rule>> /\ Len(trace) >= 3 /\ Failed(1) /\ trace[1].st.kind # "lnk")
            => /\ ~trace[3].raised
               /\ trace[3].st = trace[1].st
               /\ gen.cur = trace[1].path
               /\ fs[gen.cur].kind = trace[1].st.kind
               /\ \A b \in PermBits :
                     HasBit(fs[gen.cur].perm, b)
                         <=> (HasBit(trace[3].st.perm, b) /\ b \notin Offending(rule))
               /\ pc = "unitdone"
                     => /\ Len(trace) = 5
                        /\ trace[4].st = Lstat(fs, gen.cur)
                        /\ ~Failed(4)

\* permissions-world-readable-dir failed on a directory of mode 0o755, the
\* fix made it 0o750, and the rule passed on it
C18_Witness ==
    /\ pc = "unitdone"
    /\ tests = <<"permissions-world-readable-dir">>
    /\ Len(trace) = 5
    /\ Failed(1)
    /\ trace[1].st.kind = "dir"
    /\ trace[1].st.perm = Octal(7, 5, 5)
    /\ fs[gen.cur].perm = Octal(7, 5, 0)
    /\ ~Failed(4)

RECURSIVE StripLeading(_)
\* the name without the spaces it begins with
StripLeading(name) ==
    IF name # <<>> /\ Head(name) = " " THEN StripLeading(Tail(name)) ELSE name

RECURSIVE StripTrailing(_)
\* the name without the spaces it ends with
StripTrailing(name) ==
    IF name # <<>> /\ Last(name) = " " THEN StripTrailing(Front(name)) ELSE name

\* the name the entry under test had at first
FirstName == Last(trace[1].path)

\* what C19 says of one of the two rules, for the entry under test: the rule
\* fails exactly when `unwanted' holds of the name; the fix of a failing
\* entry does not raise and renames it to `fixed', the old name is gone, and
\* the rule passes on the new name; the fix of a compliant entry changes
\* nothing
SpaceRuleHolds(rule, unwanted, fixed) ==
    (tests = <<rule>> /\ Len(trace) >= 2)
        => /\ Failed(1) <=> unwanted
           /\ (Len(trace) >= 3 /\ Failed(1))
                 => /\ ~trace[3].raised
                    /\ gen.cur = Append(UnitDir, fixed)
                    /\ trace[1].path \notin DOMAIN fs
                    /\ gen.cur \in DOMAIN fs
                    /\ fs[gen.cur].ino = UnitIno
                    /\ pc = "unitdone" => (Len(trace) = 5 /\ ~Failed(4))
           /\ (Len(trace) >= 3 /\ ~Failed(1))
                 => /\ ~trace[3].raised
                    /\ gen.cur = trace[1].path
                    /\ DOMAIN fs = {UnitDir, trace[1].path}
                    /\ Lstat(fs, gen.cur) = trace[1].st

\* C19: name-spaceatstart (name-spaceatend) fails exactly on the names that
\* begin (end) with a space; its fix renames a failing entry to the name
\* without its leading (trailing) spaces, after which the old name is gone,
\* the new name exists and the rule passes on it; on a compliant entry the
\* fix changes nothing
C19_SpaceAtStartEnd ==
    /\ SpaceRuleHolds("name-spaceatstart", Head(FirstName) = " ",
                      StripLeading(FirstName))
    /\ SpaceRuleHolds("name-spaceatend", Last(FirstName) = " ",
                      StripTrailing(FirstName))

\* the same for the names without a newline: still not so (a name made of
\* spaces only)
SpaceFixesWithoutNewline ==
    (trace # <<>> /\ "\n" \notin Range(FirstName)) => C19_SpaceAtStartEnd

\* the same for the names without a newline that hold a character other than
\* a space: so it is
SpaceFixesOnOrdinaryNames ==
    (trace # <<>> /\ "\n" \notin Range(FirstName) /\ "a" \in Range(FirstName))
        => C19_SpaceAtStartEnd

\* name-spaceatstart failed on " a", its fix renamed the entry to "a", and
\* the rule passed on it
SpaceAtStartFixed ==
    /\ pc = "unitdone"
    /\ tests = <<"name-spaceatstart">>
    /\ FirstName = <<" ", "a">>
    /\ Failed(1)
    /\ gen.cur = Append(UnitDir, <<"a">>)
    /\ ~Failed(4)

\* two adjacent spaces somewhere in the name
HasDoubleSpace(name) ==
    \E i \in 1..(Len(name) - 1) : name[i] = " " /\ name[i + 1] = " "

RECURSIVE Collapse(_)
\* the name with every run of spaces cut down to one space: a space that is
\* followed by a space is dropped
Collapse(name) ==
    IF name = <<>> THEN <<>>
    ELSE IF Len(name) >= 2 /\ name[1] = " " /\ name[2] = " " THEN Collapse(Tail(name))
    ELSE <<Head(name)>> \o Collapse(Tail(name))

\* C20: name-spacedouble fails exactly on the names that hold two adjacent
\* spaces; its fix renames a failing entry to the name with every run of two
\* or more spaces replaced by one space (single spaces, also at the start and
\* at the end, are kept), the old name is gone and the rule passes on the new
\* name; the fix of a compliant entry leaves it in place under its name
C20_SpaceDouble ==
    SpaceRuleHolds("name-spacedouble", HasDoubleSpace(FirstName), Collapse(FirstName))

\* name-spacedouble failed on "   a" (three spaces), its fix renamed the
\* entry to " a", and the rule passed on it
C20_Witness ==
    /\ pc = "unitdone"
    /\ tests = <<"name-spacedouble">>
    /\ FirstName = <<" ", " ", " ", "a">>
    /\ Failed(1)
    /\ ~trace[3].raised
    /\ gen.cur = Append(UnitDir, <<" ", "a">>)
    /\ ~Failed(4)

\* the fix of name-spacedouble was called on a compliant entry with a space
\* at its start and one at its end, and left it under its name
CompliantLeftInPlace ==
    /\ pc = "unitdone"
    /\ tests = <<"name-spacedouble">>
    /\ FirstName = <<" ", "a", " ">>
    /\ ~Failed(1)
    /\ Len(trace) = 5
    /\ gen.cur = trace[1].path

RECURSIVE WithoutControl(_)
\* the name without its characters of a control category
WithoutControl(name) ==
    IF name = <<>> THEN <<>>
    ELSE IF Head(name) \in ControlChars THEN WithoutControl(Tail(name))
    ELSE <<Head(name)>> \o WithoutControl(Tail(name))

\* C21: name-controlchars fails exactly on the names that hold a character
\* of a control category; its fix renames a failing entry to the name
\* without these characters, the old name is gone, the new name exists and
\* the rule passes on it; the fix of a compliant entry leaves it in place
C21_ControlChars ==
    SpaceRuleHolds("name-controlchars", Range(FirstName) \cap ControlChars # {},
                   WithoutControl(FirstName))

\* the same for the names that hold a character of no control category: so
\* it is
ControlFixOnMixedNames ==
    (trace # <<>> /\ Range(FirstName) \ ControlChars # {}) => C21_ControlChars

\* name-controlchars failed on "a\na", its fix renamed the entry to "aa", and
\* the rule passed on it
ControlCharsFixed ==
    /\ pc = "unitdone"
    /\ tests = <<"name-controlchars">>
    /\ FirstName = <<"a", "\n", "a">>
    /\ Failed(1)
    /\ gen.cur = Append(UnitDir, <<"a", "a">>)
    /\ ~Failed(4)

\* the extensions of the allow-list of size-zero
AllowedExtensions ==
    {<<".", "l", "o", "c", "k">>, <<".", "l", "o", "g">>,
     <<".", "d", "b", "-", "w", "a", "l">>,
     <<".", "s", "q", "l", "i", "t", "e", "d", "b", "-", "w", "a", "l">>,
     <<".", "s", "q", "l", "i", "t", "e", "-", "w", "a", "l">>}

\* the name is __init__.py or LOCK, or ends with one of these extensions,
\* whatever the case of its letters
AllowListed(name) ==
    \/ name = <<"_", "_", "i", "n", "i", "t", "_", "_", ".", "p", "y">>
    \/ name = <<"L", "O", "C", "K">>
    \/ \E ext \in AllowedExtensions :
          /\ Len(name) >= Len(ext)
          /\ \A k \in 1..Len(ext) :
                LowerChar(name[Len(name) - Len(ext) + k]) = ext[k]

\* C22: size-zero fails exactly on the entries of size 0 that are no socket
\* and whose name is not allow-listed; it passes on every entry of another
\* size, on every socket and on every allow-listed name
C22_SizeZero ==
    \A i \in CallsOf("size-zero") :
        Failed(i) <=> (/\ trace[i].st.size = 0
                       /\ trace[i].st.kind # "sock"
                       /\ ~AllowListed(Last(trace[i].path)))

\* the same for the names in which no allowed extension is followed by more
\* characters: so it is
SizeZeroOnPlainNames ==
    \A i \in CallsOf("size-zero") :
        (AllowListed(Last(trace[i].path)) \/ ~SizeZeroAllowRegexMatch(Last(trace[i].path)))
            => (Failed(i) <=> (/\ trace[i].st.size = 0
                               /\ trace[i].st.kind # "sock"
                               /\ ~AllowListed(Last(trace[i].path))))

\* size-zero passed on an empty data.lock, or failed on an empty report.txt
SizeZeroExamples ==
    \E i \in CallsOf("size-zero") :
        /\ trace[i].st.size = 0
        /\ trace[i].st.kind = "reg"
        /\ \/ Last(trace[i].path) = <<"d", "a", "t", "a", ".", "l", "o", "c", "k">>
              /\ ~Failed(i)
           \/ Last(trace[i].path) = <<"r", "e", "p", "o", "r", "t", ".", "t", "x", "t">>
              /\ Failed(i)

ExperimentalFixesPrinted ==
    /\ pc = "unitdone"
    /\ tests[1] \in {"name-len32", "name-non-ascii"}
    /\ Failed(1)
    /\ \E i \in At("experimentalfix") : ~trace[i].raised
    /\ output # <<>>

\* gitignore on relative paths, for the patterns made of literal characters,
\* `*', `?', `/' and a leading `!': the pattern without `!' and without the
\* `/' that may end it
GitBody(pattern) ==
    LET b == IF Head(pattern) = "!" THEN Tail(pattern) ELSE pattern
    IN  IF b # <<>> /\ Last(b) = "/" THEN Front(b) ELSE b

\* a trailing `/': the pattern matches directories only
GitDirOnly(pattern) == Last(pattern) = "/"

\* the pattern matches the entry at the relative path rel (a sequence of
\* names): a pattern with a `/' at its start or inside is matched, segment
\* by segment, against the whole relative path; another pattern against the
\* name of the entry at any depth
GitMatches(pattern, rel, isdir) ==
    LET body == GitBody(pattern)
        segs == SplitSlash(body)
        anch == IF Head(segs) = <<>> THEN Tail(segs) ELSE segs
    IN  /\ PatternInclude(pattern) # "none"
        /\ body # <<>>
        /\ GitDirOnly(pattern) => isdir
        /\ IF "/" \in Range(body)
           THEN /\ Len(anch) = Len(rel)
                /\ \A k \in 1..Len(rel) : GlobMatch(anch[k], rel[k])
           ELSE GlobMatch(body, Last(rel))

RECURSIVE GitIgnored(_, _, _)
\* the last pattern that matches decides
GitIgnored(patterns, rel, isdir) ==
    IF patterns = <<>> THEN FALSE
    ELSE IF GitMatches(Last(patterns), rel, isdir) THEN Head(Last(patterns)) # "!"
    ELSE GitIgnored(Front(patterns), rel, isdir)

\* the entry listed at step i of the history is yielded later in the walk of
\* the same root argument
YieldedAfter(i) ==
    \E j \in TraversalYields :
        j > i /\ trace[j].root = trace[i].root /\ trace[j].path = trace[i].path

\* the path of the entry listed at step i, relative to the root argument
RelPath(i) == Drop(trace[i].path, Len(args.paths[trace[i].root]))

\* C24: in a walk that went to its end, a listed entry is left out exactly
\* when the spec of its directory ignores, by the rules of gitignore, its
\* path relative to the root argument: a pattern with a separator matches at
\* that place only, a pattern that ends with `/' matches directories only
C24_RelativePathMatch ==
    (pc = "done" /\ exc = "")
        => \A i \in At("entry") :
              ~YieldedAfter(i)
                  <=> GitIgnored(trace[i].rules, RelPath(i), trace[i].rule = "dir")

\* the same for the specs without a `/' in a pattern: so it is
BareNamePatternsAgree ==
    (pc = "done" /\ exc = "")
        => \A i \in At("entry") :
              (\A k \in 1..Len(trace[i].rules) : "/" \notin Range(trace[i].rules[k]))
                  => (~YieldedAfter(i)
                         <=> GitIgnored(trace[i].rules, RelPath(i), trace[i].rule = "dir"))

\* the OK and FAIL lines printed, in order
EvalLines == SelectSeq(output, LAMBDA l : l.tag \in {"OK", "FAIL"})

\* the evaluations that print a line: all of them with --verbose, those that
\* found a failure without
EvalReports ==
    SelectSeq(trace, LAMBDA e : e.ev = "report" /\ (args.verbose \/ e.rules # <<>>))

\* C25: every evaluation that found no failure prints one OK line for its
\* path with --verbose and no line without --verbose, and every evaluation
\* that found a failure prints one FAIL line and no OK line: the OK and FAIL
\* lines are, in order, one for each evaluation that prints
C25_OkLines ==
    /\ Len(EvalLines) = Len(EvalReports)
    /\ \A k \in 1..Len(EvalLines) :
          /\ EvalLines[k].path = EvalReports[k].path
          /\ EvalLines[k].tag = (IF EvalReports[k].rules = <<>> THEN "OK" ELSE "FAIL")

\* a run with --verbose ended after it printed an OK line and a FAIL line
C25_Witness ==
    /\ pc = "done"
    /\ args.verbose
    /\ \E k \in 1..Len(EvalLines) : EvalLines[k].tag = "OK"
    /\ \E k \in 1..Len(EvalLines) : EvalLines[k].tag = "FAIL"

\* a run without --verbose ended after an evaluation that found no failure
QuietCleanEvaluation ==
    /\ pc = "done"
    /\ ~args.verbose
    /\ \E i \in At("report") : trace[i].rules = <<>> /\ trace[i - 1].rules # <<>>

\* the steps of the walker
WalkerSteps == {"scandir", "read", "entry", "yield", "exhausted"}

\* a step of the walker, the ValueError it raises for a root argument that
\* is neither a directory nor a file included
WalkerStep(n) == n.ev \in WalkerSteps \/ (n.ev = "exit" /\ n.raised /\ n.root > 0)

\* the steps that call a fix
FixKinds == {"fix", "experimentalfix"}

\* the failed rules for which the loop of a --fix run calls a fix
FixesDue(failures) ==
    IF args.fix
    THEN SelectSeq(failures, LAMBDA r : FixDispatch(r, args.experimental) # "")
    ELSE <<>>

\* step i + 1 is one that may follow step i
StepFollows(i) ==
    LET e == trace[i]
        n == trace[i + 1]
        same == n.path = e.path /\ n.st = e.st
    IN  CASE e.ev = "yield"  -> n.ev = "lstat" /\ n.path = e.path
          [] e.ev = "lstat"  -> n.ev = "test" /\ same /\ n.rules = tests
          [] e.ev = "test"   -> n.ev = "report" /\ same
          [] e.ev = "report" -> \/ n.ev \in FixKinds /\ same
                                \/ WalkerStep(n)
          [] e.ev \in FixKinds -> IF e.raised
                                  THEN n.ev = "exit" /\ n.raised /\ n.path = e.path
                                  ELSE \/ n.ev \in FixKinds /\ same
                                       \/ WalkerStep(n)
          [] e.ev = "exhausted" -> n.ev = "exit" /\ ~n.raised
          [] e.ev = "exit"   -> FALSE
          [] OTHER -> TRUE

\* the fixes called after the report of step i, up to the next step of the
\* walker or the end of the run
FixesAfter(i) ==
    LET stop == IF \E j \in (i + 1)..Len(trace) : trace[j].ev \notin FixKinds
                THEN CHOOSE j \in (i + 1)..Len(trace) :
                        /\ trace[j].ev \notin FixKinds
                        /\ \A k \in (i + 1)..(j - 1) : trace[k].ev \in FixKinds
                ELSE Len(trace) + 1
    IN  [k \in 1..(stop - i - 1) |-> trace[i + k].rule]

\* C26: each yielded path gets one lstat, then the call of every active rule
\* on that snapshot, then the report, then the fixes of the failed rules in
\* their order on that same snapshot, and only then a step of the walker;
\* an exit that no exception caused and the statistics come after the walker
\* is exhausted, and nothing follows the exit
C26_Ordering ==
    /\ \A i \in 1..(Len(trace) - 1) : StepFollows(i)
    /\ \A i \in At("lstat") : i > 1 /\ trace[i - 1].ev = "yield"
    /\ \A i \in At("report") :
          LET called == FixesAfter(i)
              due    == FixesDue(trace[i].rules)
          IN  /\ Len(called) <= Len(due)
              /\ \A k \in 1..Len(called) : called[k] = due[k]
              /\ (Len(called) < Len(due) /\ i + Len(called) < Len(trace))
                    => trace[i + Len(called)].raised
    /\ (\E k \in 1..Len(output) : output[k].tag \in {"STAT", "STATHEAD"})
          => At("exhausted") # {}
    /\ (pc = "done" /\ exc = "" /\ At("configure") # {}) => At("exhausted") # {}
    /\ (exitCode # -1 /\ exc = "" /\ At("configure") # {})
          => Last(trace).ev = "exit" /\ trace[Len(trace) - 1].ev = "exhausted"

\* a --fix --statistics run ended: two fixes were called for one path between
\* its report and the next step of the walker
C26_Witness ==
    /\ pc = "done"
    /\ exc = ""
    /\ args.statistics
    /\ \E i \in At("report") :
          /\ Len(FixesAfter(i)) >= 2
          /\ WalkerStep(trace[i + Len(FixesAfter(i)) + 1])

\* the history ends with the fixes called after the report of step i (or
\* with the exit one of them caused)
FixesJustDone(i) ==
    LET last == i + Len(FixesAfter(i))
    IN  \/ last = Len(trace)
        \/ last + 1 = Len(trace) /\ trace[Len(trace)].ev = "exit"

\* the paths under which the entry of the snapshot is found now
PathsOfSnapshot(st) == {p \in DOMAIN fs : fs[p].ino = st.ino}

\* C27: when a --fix run has called the safe fixes of several failed rules
\* for one path, no fix was called on a path that an earlier one had renamed
\* away (none raised), and the entry passes every one of those rules on a
\* new lstat
C27_FixesCompose ==
    \A i \in At("report") :
        LET called == FixesAfter(i)
        IN  ( /\ FixesJustDone(i)
              /\ Len(FixesDue(trace[i].rules)) >= 2
              /\ \A k \in 1..Len(called) : trace[i + k].ev = "fix" )
                => /\ \A k \in 1..Len(called) : ~trace[i + k].raised
                   /\ \E p \in PathsOfSnapshot(trace[i].st) :
                         \A k \in 1..Len(called) :
                            RuleTest(called[k], p, Lstat(fs, p), fs)

\* C28: the fix of a rename rule leaves the number of entries as it was: it
\* does not replace another entry that has the new name
C28_RenameKeepsEntries ==
    [][(pc = "unitfix" /\ tests[1] \in RenameRules)
          => Cardinality(DOMAIN fs') = Cardinality(DOMAIN fs)]_vars

\* the entries below the root argument when the command starts
BelowRoot(root) == {q \in DOMAIN InitialFs : IsPrefix(root, q) /\ q # root}

\* neither the entry nor a directory above it, below the root argument, is
\* matched by the spec of the directory that holds it
NotExcluded(root, q) ==
    \A k \in (Len(root) + 1)..Len(q) :
        ~MatchFile(OverlayOf(SubSeq(q, 1, k - 1)), q[k])

\* the evaluations of the entry that was at q when the command started,
\* whatever its name at the time of the evaluation
EvaluationsOf(q) == {i \in At("lstat") : trace[i].st.ino = InitialFs[q].ino}

\* C29: when the run over one directory root has ended without an exception,
\* every entry below the root that is not excluded and lies under no excluded
\* directory was evaluated exactly once, and the root was not evaluated
C29_Coverage ==
    (/\ pc = "done"
     /\ exc = ""
     /\ Len(args.paths) = 1
     /\ At("configure") # {}
     /\ IsDir(InitialFs, args.paths[1]))
        => /\ \A q \in BelowRoot(args.paths[1]) :
                 NotExcluded(args.paths[1], q) => Cardinality(EvaluationsOf(q)) = 1
           /\ EvaluationsOf(args.paths[1]) = {}

\* the coverage of the runs without --fix
CoverageWithoutFix == ~args.fix => C29_Coverage

\* C30: in a run without --fix the filesystem is what it was when the command
\* started, whatever the other options and whatever failed
C30_ReadOnly == ~args.fix => fs = InitialFs

\* a run with --experimental and without --fix ended after a rule that has a
\* fix and a rule that has an experimental fix failed
C30_Witness ==
    /\ pc = "done"
    /\ ~args.fix
    /\ args.experimental
    /\ \E i \in At("report") :
          /\ \E k \in 1..Len(trace[i].rules) : HasFix(trace[i].rules[k])
          /\ \E k \in 1..Len(trace[i].rules) : HasExperimentalFix(trace[i].rules[k])

====
